---- MODULE Spec2Model ----
(***************************************************************************)
(* A model of the search-execution and deduplication engine of             *)
(* serper-lead-gen: the Deduplicator (src/utils/deduplicator.py), the      *)
(* merge of CSV exports (merge_csv_files), and the execution step of the   *)
(* application (src/app.py show_execution_step) with the two searchers     *)
(* and the cloud storage sink it drives.                                   *)
(*                                                                         *)
(* Text is modelled as a sequence of one-character strings, so that the    *)
(* URL normalisation is computed character by character as the code and    *)
(* urllib.parse compute it.                                                *)
(***************************************************************************)
EXTENDS Integers, Sequences, FiniteSets, TLC

VARIABLES
    \* --- normalize_url applied to one input, then to its own output
    nu_pc, nu_url, nu_out,
    \* --- one Deduplicator driven directly
    dd, submitted, returned, dom_submitted, dom_returned,
    \* --- one call of merge_csv_files
    mg_pc,          \* "open" | "rows" | "returned" | "raised" ("off": not running)
    mg_mode,        \* deduplicate_by: "url" | "domain" | "none"
    mg_nfiles,      \* len(file_paths)
    mg_file,        \* number of file paths taken from file_paths so far
    mg_kind,        \* the header of the file being read
    mg_kinds,       \* the headers of the files opened so far ("missing" if not found)
    mg_deduper,     \* deduper
    mg_all_rows,    \* all_rows
    mg_fieldnames,  \* fieldnames: <<>> for None, <<columns>> otherwise
    mg_total_rows,  \* total_rows
    mg_out,         \* the output file: <<>> if not written, <<[header, rows]>> otherwise
    mg_ret,         \* the returned triple, <<>> before the return
    mg_read,        \* history: the rows the loop has taken from the readers, in order
    mg_dups,        \* history: the rows add_url / add_domain answered False for
    \* --- one run of the execution step (show_execution_step)
    run_pc,             \* "start" | "web_call" | "web_flush" | "maps_call" |
                        \* "maps_flush" | "complete" | "rerun" | "done" | "interrupted"
    config,             \* search_type, and the numbers of cities, queries, pages
    cs_available,       \* cs.available
    cloud_search_id,    \* 0 for None
    searcher,           \* the EnhancedSerperSearcher
    maps_searcher,      \* the SerperMapsSearcher
    city, query, page,  \* the loop counters city_info, query, page_num
    total_saved_count,
    sink,               \* the tables of the storage: results, and the searches row
    reported,           \* <<>>, or the summary passed to complete_search
    last_flush,         \* history: <<>>, or the last flush_and_clear call
    last_call,          \* history: <<>>, or the keys the last search call offered
    trace,              \* history: the backend calls and the flushes of the run, in order
    \* --- one EnhancedSerperSearcher driven directly
    sq_pc,          \* "idle" | "paging" (inside search_single_query) ("off": not running)
    sq_plan,        \* what the caller may do: calls, total_results values, other operations
    sq,             \* the searcher
    sq_calls,       \* search_single_query calls begun
    sq_ops,         \* save_checkpoint and export_to_csv calls made
    sq_total_results, \* total_results of the current call
    sq_total_pages, \* total_pages of the current call
    sq_page,        \* page of the page loop
    sq_start,       \* history: the searcher when the current call began
    sq_outs,        \* history: the responses of the current call, page by page
    sq_op,          \* history: the last operation that ran
    sq_export,      \* the export file: <<>> if never written, <<rows>> otherwise
    sq_accepted,    \* history: every record the searcher accepted, in order
    sq_writes_ok,   \* history: no append to the checkpoint file has failed
    \* --- one function of the repository called directly
    fn_pc,          \* "call" before the call, "returned" after it ("off": not running)
    fn_args,        \* the arguments of the call
    fn_ret          \* <<>> before the return, <<value>> after it

nu_vars == <<nu_pc, nu_url, nu_out>>
dd_vars == <<dd, submitted, returned, dom_submitted, dom_returned>>
mg_vars == <<mg_pc, mg_mode, mg_nfiles, mg_file, mg_kind, mg_kinds, mg_deduper,
             mg_all_rows, mg_fieldnames, mg_total_rows, mg_out, mg_ret, mg_read, mg_dups>>
run_vars == <<run_pc, config, cs_available, cloud_search_id, searcher, maps_searcher,
              city, query, page, total_saved_count, sink, reported, last_flush,
              last_call, trace>>
sq_vars == <<sq_pc, sq_plan, sq, sq_calls, sq_ops, sq_total_results, sq_total_pages, sq_page, sq_start,
             sq_outs, sq_op, sq_export, sq_accepted, sq_writes_ok>>
fn_vars == <<fn_pc, fn_args, fn_ret>>
vars == <<nu_vars, dd_vars, mg_vars, run_vars, sq_vars, fn_vars>>

-----------------------------------------------------------------------------
(* Bounds of the model *)

MaxUrlLen == 4
MaxSubmit == 3
MaxDomSubmit == 1
MaxMergeFiles == 2
MaxMergeRows == 3
MaxCities == 2
MaxQueries == 2
MaxPages == 2
MaxItems == 1
MaxCalls == 2
MaxQueryCalls == 2
MaxSearcherOps == 2
MaxEmptyResponses == 2
MaxPipelineItems == 2
MaxCallPlaces == 2
MaxCsvRows == 3
MaxCityRecords == 4

-----------------------------------------------------------------------------
(* Text helpers: str.lower, str.find, str.rstrip, str.lstrip, str.strip *)

UpperLetters == <<"A","B","C","D","E","F","G","H","I","J","K","L","M",
                  "N","O","P","Q","R","S","T","U","V","W","X","Y","Z">>
LowerLetters == <<"a","b","c","d","e","f","g","h","i","j","k","l","m",
                  "n","o","p","q","r","s","t","u","v","w","x","y","z">>
Digits == {"0","1","2","3","4","5","6","7","8","9"}

IsUpper(c) == \E i \in 1..26 : UpperLetters[i] = c
IsLower(c) == \E i \in 1..26 : LowerLetters[i] = c
IsAlpha(c) == IsUpper(c) \/ IsLower(c)

LowerChar(c) ==
    IF IsUpper(c) THEN LowerLetters[CHOOSE i \in 1..26 : UpperLetters[i] = c] ELSE c

Lower(s) == [i \in 1..Len(s) |-> LowerChar(s[i])]

Has(s, c) == \E i \in 1..Len(s) : s[i] = c

\* str.find(c, start) with 1-based positions; 0 when c does not occur at or after start
Find(s, c, start) ==
    IF \E i \in start..Len(s) : s[i] = c
    THEN CHOOSE i \in start..Len(s) : s[i] = c /\ \A j \in start..(i-1) : s[j] # c
    ELSE 0

\* str.rfind(c); 0 when c does not occur
RFind(s, c) ==
    IF Has(s, c)
    THEN CHOOSE i \in 1..Len(s) : s[i] = c /\ \A j \in (i+1)..Len(s) : s[j] # c
    ELSE 0

RECURSIVE RStrip(_, _)
RStrip(s, c) ==
    IF Len(s) > 0 /\ s[Len(s)] = c THEN RStrip(SubSeq(s, 1, Len(s) - 1), c) ELSE s

RECURSIVE LStrip(_, _)
LStrip(s, c) ==
    IF Len(s) > 0 /\ s[1] = c THEN LStrip(Tail(s), c) ELSE s

\* str.strip() on text whose only whitespace character is the space
Strip(s) == RStrip(LStrip(s, " "), " ")

-----------------------------------------------------------------------------
(* urllib.parse.urlparse, as called by the Deduplicator *)

scheme_chars == {UpperLetters[i] : i \in 1..26} \cup {LowerLetters[i] : i \in 1..26}
                \cup Digits \cup {"+", "-", "."}

uses_params == { <<>>, <<"f","t","p">>, <<"h","d","l">>,
                 <<"p","r","o","s","p","e","r","o">>, <<"h","t","t","p">>,
                 <<"i","m","a","p">>, <<"h","t","t","p","s">>,
                 <<"s","h","t","t","p">>, <<"r","t","s","p">>,
                 <<"r","t","s","p","s">>, <<"r","t","s","p","u">>,
                 <<"s","i","p">>, <<"s","i","p","s">>, <<"m","m","s">>,
                 <<"s","f","t","p">>, <<"t","e","l">> }

\* the scheme split of urlsplit: <<scheme, rest>>
SplitScheme(url) ==
    LET i == Find(url, ":", 1) IN
    IF i > 1 /\ IsAlpha(url[1]) /\ \A j \in 1..(i-1) : url[j] \in scheme_chars
    THEN <<Lower(SubSeq(url, 1, i - 1)), SubSeq(url, i + 1, Len(url))>>
    ELSE <<(<<>>), url>>

\* _splitnetloc(url, 2): the text after the leading // up to the first of / ? #
SplitNetloc(url) ==
    LET ends == {Find(url, c, 3) : c \in {"/", "?", "#"}} \ {0}
        delim == IF ends = {} THEN Len(url) + 1
                 ELSE CHOOSE d \in ends : \A e \in ends : d <= e
    IN <<SubSeq(url, 3, delim - 1), SubSeq(url, delim, Len(url))>>

\* str.split(c, 1) when c occurs: the text before the first c
Before(s, c) == IF Has(s, c) THEN SubSeq(s, 1, Find(s, c, 1) - 1) ELSE s

\* _splitparams: the path without the parameters of its last segment
SplitParams(path) ==
    IF Has(path, "/")
    THEN LET i == Find(path, ";", RFind(path, "/")) IN
         IF i = 0 THEN path ELSE SubSeq(path, 1, i - 1)
    ELSE SubSeq(path, 1, Find(path, ";", 1) - 1)

\* the one element of a singleton set: The({e : x \in {v}}) is e with x
\* standing for the value of v
The(S) == CHOOSE x \in S : TRUE

\* urlsplit after the scheme split ss = <<scheme, rest>>: the netloc is taken
\* when the rest starts with //
UrlsplitNetloc(ss) ==
    LET rest == ss[2]
        hasNet == Len(rest) >= 2 /\ rest[1] = "/" /\ rest[2] = "/"
        sn == IF hasNet THEN SplitNetloc(rest) ELSE <<(<<>>), rest>>
    IN [scheme |-> ss[1], netloc |-> sn[1], rest |-> sn[2], hasNet |-> hasNet]

\* the end of urlparse for the parts p of UrlsplitNetloc: the fragment and
\* the query are cut off, then the parameters
UrlparsePath(p) ==
    LET raises == p.hasNet /\ (Has(p.netloc, "[") \/ Has(p.netloc, "]")) IN
    The({[ok |-> ~raises, scheme |-> p.scheme, netloc |-> p.netloc,
          path |-> IF p.scheme \in uses_params /\ Has(noQuery, ";")
                   THEN SplitParams(noQuery) ELSE noQuery] :
         noQuery \in {Before(Before(p.rest, "#"), "?")}})

\* urlparse: [ok, scheme, netloc, path]; ok = FALSE when urlsplit raises
\* ValueError (a bracket without its partner in the netloc, or a bracketed
\* host that is no IP literal: the texts of this model hold no IP literal)
urlparse(url0) ==
    The({UrlparsePath(p) :
         p \in {UrlsplitNetloc(ss) :
                ss \in {SplitScheme(url) : url \in {LStrip(url0, " ")}}}})

-----------------------------------------------------------------------------
(* Deduplicator *)

\* Deduplicator.normalize_url
normalize_url(url) ==
    The({IF parsed.ok
         THEN Lower(RStrip(parsed.scheme \o <<":", "/", "/">> \o parsed.netloc
                           \o parsed.path, "/"))
         ELSE Lower(url) :
         parsed \in {urlparse(url)}})

\* the domain of extract_domain without its leading www.
StripWww(domain) ==
    IF Len(domain) >= 4 /\ SubSeq(domain, 1, 4) = <<"w", "w", "w", ".">>
    THEN SubSeq(domain, 5, Len(domain)) ELSE domain

\* Deduplicator.extract_domain
extract_domain(url) ==
    The({IF parsed.ok
         THEN Lower(StripWww(IF parsed.netloc # <<>> THEN parsed.netloc ELSE parsed.path))
         ELSE Lower(url) :
         parsed \in {urlparse(url)}})

\* Deduplicator.__init__
NewDeduplicator == [seen_urls |-> {}, seen_domains |-> {}, url_to_record |-> {}]

\* add_url with the normalization left out (the URL is tracked as written)
add_url_raw(d, url, record) ==
    IF url \in d.seen_urls
    THEN [d |-> d, ret |-> FALSE]
    ELSE [d |-> [d EXCEPT !.seen_urls = @ \cup {url}], ret |-> TRUE]

\* Deduplicator.add_url(url, record): the deduplicator afterwards and the value
\* returned. record is <<>> for None and <<r>> for a record r; url_to_record is
\* the set of <<normalized, record>> entries of the dict.
add_url(d, url, record) ==
    The({IF normalized \in d.seen_urls
         THEN [d |-> d, ret |-> FALSE]
         ELSE [d |-> [d EXCEPT !.seen_urls = @ \cup {normalized},
                               !.url_to_record = IF record # <<>>
                                                 THEN @ \cup {<<normalized, record[1]>>}
                                                 ELSE @],
               ret |-> TRUE] :
         normalized \in {normalize_url(url)}})

\* add_domain with the lower-casing left out
add_domain_raw(d, domain) ==
    IF domain \in d.seen_domains
    THEN [d |-> d, ret |-> FALSE]
    ELSE [d |-> [d EXCEPT !.seen_domains = @ \cup {domain}], ret |-> TRUE]

\* Deduplicator.add_domain(domain)
add_domain(d, domain) ==
    LET lowered == Lower(domain) IN
    IF lowered \in d.seen_domains
    THEN [d |-> d, ret |-> FALSE]
    ELSE [d |-> [d EXCEPT !.seen_domains = @ \cup {lowered}], ret |-> TRUE]

\* Deduplicator.get_unique_count
get_unique_count(d) == Cardinality(d.seen_urls)

-----------------------------------------------------------------------------
(* Texts used as inputs *)

Https == <<"h","t","t","p","s",":","/","/">>
U_a_x == Https \o <<"a",".","c","o","m","/","x">>
U_a_x_slash == U_a_x \o <<"/">>
U_www_a_x == Https \o <<"w","w","w",".","a",".","c","o","m","/","x">>
U_A_x_query == <<"H","T","T","P","S",":","/","/","A",".","c","o","m","/","x","?","q","#","f">>
U_a_y == Https \o <<"a",".","c","o","m","/","y">>
U_b == Https \o <<"b",".","c","o","m">>
U_noscheme == <<"a",".","c","o","m","/","x">>
PlaceIdPrefix == <<"p","l","a","c","e","_","i","d",":">>
U_place_abc == PlaceIdPrefix \o <<"a","b","c">>

D_a == <<"a",".","c","o","m">>
D_A == <<"A",".","c","o","m">>
D_b == <<"b",".","c","o","m">>

-----------------------------------------------------------------------------
(* EnhancedSerperSearcher *)

results_per_page == 10
max_pages == 10
checkpoint_interval == 50

Min(a, b) == IF a <= b THEN a ELSE b

\* EnhancedSerperSearcher.__init__; checkpoint_file is the content of the
\* checkpoint file (the rows appended so far); requests is history: the
\* backend calls attempted, each with the page number sent
NewSearcher ==
    [deduplicator |-> NewDeduplicator, all_results |-> <<>>, api_call_count |-> 0,
     enable_checkpoints |-> TRUE, checkpoint_file |-> <<>>, last_checkpoint_count |-> 0,
     requests |-> <<>>]

\* whether the searcher's caller sees a falsy response: the request failed
\* ({} is returned) or the body is an empty JSON object
EmptyResponse(out) == ~out.ok \/ out.blank

\* EnhancedSerperSearcher.search: the counter moves only when the request
\* succeeded; a RequestException gives the empty response
search(s, page_number, out) ==
    [s EXCEPT !.api_call_count = IF out.ok THEN @ + 1 ELSE @,
              !.requests = Append(@, [page |-> page_number, ok |-> out.ok])]

\* the record extract_results builds for an item
WebRecord(url, q, source_type, c) ==
    [kind |-> "search", url |-> url, website |-> <<>>, place_id |-> <<>>,
     source_type |-> source_type, query |-> q, city |-> c]

\* extract_results with the duplicate test left out
RECURSIVE extract_results_unchecked(_, _, _, _, _)
extract_results_unchecked(d, data, q, source_type, c) ==
    IF data = <<>> THEN [d |-> d, results |-> <<>>]
    ELSE LET url == Head(data)
             rest == extract_results_unchecked(d, Tail(data), q, source_type, c)
         IN IF url = <<>> THEN rest
            ELSE [d |-> rest.d,
                  results |-> <<WebRecord(url, q, source_type, c)>> \o rest.results]

\* EnhancedSerperSearcher.extract_results: data is the list of the items'
\* links; the deduplicator afterwards and the records extracted
RECURSIVE extract_results(_, _, _, _, _)
extract_results(d, data, q, source_type, c) ==
    IF data = <<>> THEN [d |-> d, results |-> <<>>]
    ELSE IF Head(data) = <<>> THEN extract_results(d, Tail(data), q, source_type, c)
    ELSE The({The({[d |-> rest.d,
                    results |-> IF a.ret
                                THEN <<WebRecord(Head(data), q, source_type, c)>>
                                     \o rest.results
                                ELSE rest.results] :
                   rest \in {extract_results(a.d, Tail(data), q, source_type, c)}}) :
              a \in {add_url(d, Head(data), <<>>)}})

\* one part of a response (organic, ads or shopping) added to all_results
TakePart(s, data, q, source_type, c) ==
    IF data = <<>> THEN s
    ELSE The({[s EXCEPT !.deduplicator = e.d, !.all_results = @ \o e.results] :
              e \in {extract_results(s.deduplicator, data, q, source_type, c)}})

\* the body of the page loop of search_single_query for one response
TakePage(s, out, q, c, p) ==
    IF p # 1 THEN TakePart(s, out.organic, q, "organic", c)
    ELSE The({TakePart(s2, out.shopping, q, "shopping", c) :
              s2 \in {TakePart(s1, out.ads, q, "ads", c) :
                      s1 \in {TakePart(s, out.organic, q, "organic", c)}}})

\* one pass of the page loop of search_single_query: the call for page p and,
\* unless the response is empty, the parts of the response
PageStep(s, out, q, c, p) ==
    IF EmptyResponse(out) THEN search(s, p, out)
    ELSE TakePage(search(s, p, out), out, q, c, p)

\* the length test applied to every response, the empty ones included
BreaksOnEmptyResponse(out) == Len(out.organic) < results_per_page

\* whether the pass leaves the loop: a response with fewer organic items
\* than a page holds
Breaks(out) == ~EmptyResponse(out) /\ Len(out.organic) < results_per_page

\* the page loop of search_single_query from page p on; outs holds the
\* outcome of each backend call still to come
RECURSIVE PageLoop(_, _, _, _, _, _)
PageLoop(s, outs, q, c, p, total_pages) ==
    IF p > total_pages \/ outs = <<>> THEN s
    ELSE The({IF Breaks(Head(outs)) THEN s2
              ELSE PageLoop(s2, Tail(outs), q, c, p + 1, total_pages) :
              s2 \in {PageStep(s, Head(outs), q, c, p)}})

\* EnhancedSerperSearcher.save_checkpoint; written is the outcome of the
\* append: ok when writerows went through, otherwise rows is the number of
\* rows that reached the file before the exception
save_checkpoint(s, written) ==
    LET new_results == SubSeq(s.all_results, s.last_checkpoint_count + 1,
                              Len(s.all_results))
    IN IF ~s.enable_checkpoints \/ s.all_results = <<>> \/ new_results = <<>> THEN s
       ELSE IF written.ok
       THEN [s EXCEPT !.checkpoint_file = @ \o new_results,
                      !.last_checkpoint_count = Len(s.all_results)]
       ELSE [s EXCEPT !.checkpoint_file =
                        @ \o SubSeq(new_results, 1, Min(written.rows, Len(new_results) - 1))]

\* EnhancedSerperSearcher.check_and_save_checkpoint
check_and_save_checkpoint(s, written) ==
    IF s.enable_checkpoints
       /\ Len(s.all_results) - s.last_checkpoint_count >= checkpoint_interval
    THEN save_checkpoint(s, written)
    ELSE s

\* the number of pages without the ceiling of max_pages
total_pages_uncapped(total_results) ==
    (total_results + results_per_page - 1) \div results_per_page

\* the number of pages search_single_query asks for
total_pages_of(total_results) ==
    Min((total_results + results_per_page - 1) \div results_per_page, max_pages)

\* EnhancedSerperSearcher.search_single_query
search_single_query(s, q, total_results, c, outs, written) ==
    The({check_and_save_checkpoint(s1, written) :
         s1 \in {PageLoop(s, outs, q, c, 1, total_pages_of(total_results))}})

-----------------------------------------------------------------------------
(* SerperMapsSearcher *)

\* SerperMapsSearcher.__init__
NewMapsSearcher ==
    [deduplicator |-> NewDeduplicator, all_results |-> <<>>, api_call_count |-> 0,
     requests |-> <<>>]

\* SerperMapsSearcher.search_maps
search_maps(m, page_number, out) ==
    [m EXCEPT !.api_call_count = IF out.ok THEN @ + 1 ELSE @,
              !.requests = Append(@, [page |-> page_number, ok |-> out.ok])]

\* the key extract_maps_results hands to add_url
MapsDedupKey(place) ==
    IF place.website # <<>> THEN place.website ELSE PlaceIdPrefix \o place.placeId

\* the record extract_maps_results builds for a place
MapsRecord(place, q, c) ==
    [kind |-> "maps", url |-> <<>>, website |-> place.website, place_id |-> place.placeId,
     source_type |-> "", query |-> q, city |-> c]

\* SerperMapsSearcher.extract_maps_results
RECURSIVE extract_maps_results(_, _, _, _)
extract_maps_results(d, places, q, c) ==
    IF places = <<>> THEN [d |-> d, results |-> <<>>]
    ELSE The({The({[d |-> rest.d,
                    results |-> IF a.ret
                                THEN <<MapsRecord(Head(places), q, c)>> \o rest.results
                                ELSE rest.results] :
                   rest \in {extract_maps_results(a.d, Tail(places), q, c)}}) :
              a \in {add_url(d, MapsDedupKey(Head(places)), <<>>)}})

-----------------------------------------------------------------------------
(* CloudStorage: the sink *)

chunk_size == 500

\* the storage before create_search: no result rows, no searches row
EmptySink == [results |-> <<>>, search |-> <<>>]

\* the row save_results builds from a result dict: the columns of the results
\* table the dict has a key for (a record of the maps searcher has no 'url'
\* key, a record of the web searcher no 'place_id' and no 'source' key; the
\* table has no column for 'website' or 'source_type'); rec is history, the
\* record the row was built from
SaveRow(search_id, r) ==
    [search_id |-> search_id,
     url |-> IF r.kind = "search" THEN <<r.url>> ELSE <<>>,
     place_id |-> IF r.kind = "maps" THEN <<r.place_id>> ELSE <<>>,
     city |-> r.city, query |-> r.query,
     source |-> r.kind,
     rec |-> r]

\* the chunk loop of save_results: oks[i] tells whether the insert of the
\* i-th chunk succeeded; the rows inserted
RECURSIVE InsertChunks(_, _)
InsertChunks(rows, oks) ==
    IF rows = <<>> THEN <<>>
    ELSE LET n == Min(chunk_size, Len(rows))
             chunk == SubSeq(rows, 1, n)
         IN (IF Head(oks) THEN chunk ELSE <<>>)
            \o InsertChunks(SubSeq(rows, n + 1, Len(rows)), Tail(oks))

\* the number of chunks save_results inserts
ChunkCount(n) == (n + chunk_size - 1) \div chunk_size

\* CloudStorage.save_results: the rows the results table gains
save_results(available, search_id, results, oks) ==
    IF ~available \/ search_id = 0 \/ results = <<>> THEN <<>>
    ELSE InsertChunks([i \in 1..Len(results) |-> SaveRow(search_id, results[i])], oks)

\* CloudStorage.update_search_count and complete_search: the searches row
\* after the update; ok tells whether the request succeeded
UpdateSearch(available, search_id, row, fields, ok) ==
    IF ~available \/ search_id = 0 \/ ~ok \/ row = <<>> THEN row
    ELSE <<[f \in DOMAIN row[1] |-> IF f \in DOMAIN fields THEN fields[f] ELSE row[1][f]]>>

-----------------------------------------------------------------------------
(* A component that is not running: its variables stay at these values *)

NormIdle == nu_pc = "off" /\ nu_url = <<>> /\ nu_out = <<>>

DedupIdle ==
    /\ dd = NewDeduplicator
    /\ submitted = <<>> /\ returned = <<>>
    /\ dom_submitted = <<>> /\ dom_returned = <<>>

MergeIdle ==
    /\ mg_pc = "off" /\ mg_mode = "none" /\ mg_nfiles = 0 /\ mg_file = 0
    /\ mg_kind = "missing" /\ mg_kinds = <<>>
    /\ mg_deduper = NewDeduplicator /\ mg_all_rows = <<>> /\ mg_fieldnames = <<>>
    /\ mg_total_rows = 0 /\ mg_out = <<>> /\ mg_ret = <<>>
    /\ mg_read = <<>> /\ mg_dups = {}

RunIdle ==
    /\ run_pc = "off"
    /\ config = [search_type |-> "none", cities |-> 0, queries |-> 0, pages |-> 0]
    /\ cs_available = FALSE /\ cloud_search_id = 0
    /\ searcher = NewSearcher /\ maps_searcher = NewMapsSearcher
    /\ city = 0 /\ query = 0 /\ page = 0
    /\ total_saved_count = 0
    /\ sink = EmptySink /\ reported = <<>> /\ last_flush = <<>> /\ last_call = <<>> /\ trace = <<>>

SearcherIdle ==
    /\ sq_pc = "off" /\ sq_plan = [calls |-> 0, targets |-> {}, ops |-> 0, clears |-> FALSE, empties |-> 0]
    /\ sq = NewSearcher /\ sq_calls = 0 /\ sq_ops = 0
    /\ sq_total_results = 0 /\ sq_total_pages = 0 /\ sq_page = 0
    /\ sq_start = NewSearcher /\ sq_outs = <<>> /\ sq_op = "" /\ sq_export = <<>>
    /\ sq_accepted = <<>> /\ sq_writes_ok = TRUE

FnIdle == fn_pc = "off" /\ fn_args = <<>> /\ fn_ret = <<>>

\* every text of at most n characters over the alphabet
Texts(alphabet, n) == UNION {[1..k -> alphabet] : k \in 0..n}

-----------------------------------------------------------------------------
(* normalize_url applied to an input and then to its own output *)

NormAlphabet == {"a", "A", ":", "/", "?", "#", ";", "[", "_", " "}
NormInputs == Texts(NormAlphabet, MaxUrlLen)
              \cup {U_a_x, U_a_x_slash, U_www_a_x, U_A_x_query, U_noscheme, U_place_abc}

NormInit ==
    /\ nu_pc = "input"
    /\ nu_url \in NormInputs
    /\ nu_out = <<>>
    /\ DedupIdle /\ MergeIdle /\ RunIdle /\ SearcherIdle /\ FnIdle

NormalizeOnce ==
    /\ nu_pc = "input"
    /\ nu_out' = <<normalize_url(nu_url)>>
    /\ nu_pc' = "once"
    /\ UNCHANGED <<nu_url, dd_vars, mg_vars, run_vars, sq_vars, fn_vars>>

NormalizeTwice ==
    /\ nu_pc = "once"
    /\ nu_out' = Append(nu_out, normalize_url(nu_out[1]))
    /\ nu_pc' = "twice"
    /\ UNCHANGED <<nu_url, dd_vars, mg_vars, run_vars, sq_vars, fn_vars>>

-----------------------------------------------------------------------------
(* One Deduplicator, its add_url and add_domain called in any order *)

DedupUrlPool == {U_a_x, U_a_x_slash, U_www_a_x, U_A_x_query, U_a_y, U_noscheme}
DedupDomainPool == {D_a, D_A, D_b}

DedupInit ==
    /\ dd = NewDeduplicator
    /\ submitted = <<>>
    /\ returned = <<>>
    /\ dom_submitted = <<>>
    /\ dom_returned = <<>>
    /\ NormIdle /\ MergeIdle /\ RunIdle /\ SearcherIdle /\ FnIdle

AddUrl(u) ==
    /\ Len(submitted) < MaxSubmit
    /\ LET r == add_url(dd, u, <<>>) IN
        /\ dd' = r.d
        /\ returned' = Append(returned, r.ret)
    /\ submitted' = Append(submitted, u)
    /\ UNCHANGED <<dom_submitted, dom_returned, nu_vars, mg_vars, run_vars, sq_vars, fn_vars>>

AddDomain(dom) ==
    /\ Len(dom_submitted) < MaxDomSubmit
    /\ LET r == add_domain(dd, dom) IN
        /\ dd' = r.d
        /\ dom_returned' = Append(dom_returned, r.ret)
    /\ dom_submitted' = Append(dom_submitted, dom)
    /\ UNCHANGED <<submitted, returned, nu_vars, mg_vars, run_vars, sq_vars, fn_vars>>

-----------------------------------------------------------------------------
(* merge_csv_files *)

\* the columns EnhancedSerperSearcher.export_to_csv writes
WebFields == {"domain", "url", "title", "description", "source_type", "query",
              "city", "position"}

\* the columns SerperMapsSearcher.export_to_csv writes
MapsFields == {"business_name", "address", "phone", "website", "domain", "rating",
               "review_count", "category", "city", "query", "place_id", "source"}

\* reader.fieldnames of a file: <<>> for None (a file without a header line)
FieldnamesOf(kind) ==
    CASE kind = "web" -> <<WebFields>>
      [] kind = "maps" -> <<MapsFields>>
      [] OTHER -> <<>>

\* A row as csv.DictReader yields it: the columns of its file (cols), the url
\* and domain cells (the empty text when the file has no such column, as
\* row.get(key, '') reads it), and the key columns whose cell is None because
\* the line is shorter than the header (none).
Row(cols, url, domain, none) == [cols |-> cols, url |-> url, domain |-> domain, none |-> none]

Space == <<" ">>
WebRows == { Row("web", U_a_x, D_a, {}),
             Row("web", U_a_x_slash, D_A, {}),
             Row("web", U_b, D_b, {}),
             Row("web", <<>>, <<>>, {}),
             Row("web", Space \o U_b \o Space, Space \o D_b, {}),
             Row("web", <<>>, D_a, {"url"}) }
MapsRows == { Row("maps", <<>>, D_a, {}),
              Row("maps", <<>>, D_b, {}),
              Row("maps", <<>>, <<>>, {}),
              Row("maps", <<>>, <<>>, {"domain"}) }
RowsOf(kind) == CASE kind = "web" -> WebRows [] kind = "maps" -> MapsRows [] OTHER -> {}

\* the dict keys of a row
RowKeys(row) == IF row.cols = "web" THEN WebFields ELSE MapsFields

\* The body of the row loop after total_rows += 1: the deduper afterwards,
\* whether the row is appended to all_rows (keep), whether add_url / add_domain
\* was called and answered False (dup), and whether the body raised
\* (None.strip() on a missing cell).
MergeRow(mode, d, row) ==
    LET stay == [d |-> d, keep |-> FALSE, dup |-> FALSE, raised |-> FALSE]
        url == Strip(row.url)
        domain == Strip(row.domain)
        ru == add_url(d, url, <<row>>)
        rd == add_domain(d, domain)
    IN IF mode = "url"
       THEN IF "url" \in row.none THEN [stay EXCEPT !.raised = TRUE]
            ELSE IF url = <<>> THEN stay
            ELSE [d |-> ru.d, keep |-> ru.ret, dup |-> ~ru.ret, raised |-> FALSE]
       ELSE IF mode = "domain"
       THEN IF "domain" \in row.none THEN [stay EXCEPT !.raised = TRUE]
            ELSE IF domain = <<>> THEN stay
            ELSE [d |-> rd.d, keep |-> rd.ret, dup |-> ~rd.ret, raised |-> FALSE]
       ELSE [stay EXCEPT !.keep = TRUE]

\* a variant of the returned triple that counts the deduper's identities
MergeTripleByIdentities(total_rows, all_rows, d) ==
    <<total_rows, Cardinality(d.seen_urls), total_rows - Cardinality(d.seen_urls)>>

\* the triple merge_csv_files returns
MergeTriple(total_rows, all_rows, d) ==
    <<total_rows, Len(all_rows), total_rows - Len(all_rows)>>

\* csv.DictWriter.writerows with the default extrasaction='raise': the rows
\* written before the first row that carries a key outside fieldnames
RECURSIVE WrittenPrefix(_, _)
WrittenPrefix(rows, fieldnames) ==
    IF rows = <<>> \/ ~(RowKeys(Head(rows).row) \subseteq fieldnames) THEN <<>>
    ELSE <<Head(rows)>> \o WrittenPrefix(Tail(rows), fieldnames)

MergeInit ==
    /\ mg_pc = "open"
    /\ mg_mode \in {"url", "domain", "none"}
    /\ mg_nfiles \in 0..MaxMergeFiles
    /\ mg_file = 0
    /\ mg_kind = "missing"
    /\ mg_kinds = <<>>
    /\ mg_deduper = NewDeduplicator
    /\ mg_all_rows = <<>>
    /\ mg_fieldnames = <<>>
    /\ mg_total_rows = 0
    /\ mg_out = <<>>
    /\ mg_ret = <<>>
    /\ mg_read = <<>>
    /\ mg_dups = {}
    /\ NormIdle /\ DedupIdle /\ RunIdle /\ SearcherIdle /\ FnIdle

\* open(file_path) succeeds: the reader is made and the first file's header
\* becomes fieldnames
MergeOpenFile(kind) ==
    /\ mg_pc = "open" /\ mg_file < mg_nfiles
    /\ mg_file' = mg_file + 1
    /\ mg_kind' = kind
    /\ mg_kinds' = Append(mg_kinds, kind)
    /\ mg_fieldnames' = IF mg_fieldnames = <<>> THEN FieldnamesOf(kind) ELSE mg_fieldnames
    /\ mg_pc' = "rows"
    /\ UNCHANGED <<mg_mode, mg_nfiles, mg_deduper, mg_all_rows, mg_total_rows, mg_out,
                   mg_ret, mg_read, mg_dups, nu_vars, dd_vars, run_vars, sq_vars, fn_vars>>

\* open(file_path) raises FileNotFoundError: the file is skipped
MergeFileNotFound ==
    /\ mg_pc = "open" /\ mg_file < mg_nfiles
    /\ mg_file' = mg_file + 1
    /\ mg_kinds' = Append(mg_kinds, "missing")
    /\ UNCHANGED <<mg_pc, mg_mode, mg_nfiles, mg_kind, mg_deduper, mg_all_rows,
                   mg_fieldnames, mg_total_rows, mg_out, mg_ret, mg_read, mg_dups,
                   nu_vars, dd_vars, run_vars, sq_vars, fn_vars>>

\* the effect of one pass of the row loop, r being what the body decided
MergeTakeRow(row, r) ==
    /\ mg_pc = "rows" /\ Len(mg_read) < MaxMergeRows
    /\ LET pos == Len(mg_read) + 1
           entry == [pos |-> pos, file |-> mg_file, row |-> row]
       IN /\ mg_total_rows' = mg_total_rows + 1
          /\ mg_read' = Append(mg_read, entry)
          /\ mg_deduper' = r.d
          /\ mg_all_rows' = IF r.keep THEN Append(mg_all_rows, entry) ELSE mg_all_rows
          /\ mg_dups' = IF r.dup THEN mg_dups \cup {pos} ELSE mg_dups
          /\ mg_pc' = IF r.raised THEN "open" ELSE "rows"
    /\ UNCHANGED <<mg_mode, mg_nfiles, mg_file, mg_kind, mg_kinds, mg_fieldnames,
                   mg_out, mg_ret, nu_vars, dd_vars, run_vars, sq_vars, fn_vars>>

\* one pass of the row loop; a row whose key cell is None makes the body raise,
\* which the handler around the file catches: the rest of the file is skipped
MergeReadRow(row) == MergeTakeRow(row, MergeRow(mg_mode, mg_deduper, row))

\* the reader is exhausted
MergeEndOfFile ==
    /\ mg_pc = "rows"
    /\ mg_pc' = "open"
    /\ UNCHANGED <<mg_mode, mg_nfiles, mg_file, mg_kind, mg_kinds, mg_deduper,
                   mg_all_rows, mg_fieldnames, mg_total_rows, mg_out, mg_ret, mg_read,
                   mg_dups, nu_vars, dd_vars, run_vars, sq_vars, fn_vars>>

\* the reader raises while yielding a row (csv.Error, UnicodeDecodeError): the
\* handler around the file catches it and the rest of the file is skipped
MergeReadError ==
    /\ mg_pc = "rows" /\ mg_kind # "empty"
    /\ mg_pc' = "open"
    /\ mg_kinds' = [mg_kinds EXCEPT ![Len(mg_kinds)] = "broken"]
    /\ UNCHANGED <<mg_mode, mg_nfiles, mg_file, mg_kind, mg_deduper, mg_all_rows,
                   mg_fieldnames, mg_total_rows, mg_out, mg_ret, mg_read, mg_dups,
                   nu_vars, dd_vars, run_vars, sq_vars, fn_vars>>

\* after the last file: write the merged rows and return the triple; the
\* write is outside every handler, so a ValueError of writerows leaves the
\* function
MergeWriteAndReturn ==
    /\ mg_pc = "open" /\ mg_file = mg_nfiles
    /\ IF mg_all_rows # <<>> /\ mg_fieldnames # <<>>
       THEN LET written == WrittenPrefix(mg_all_rows, mg_fieldnames[1]) IN
            /\ mg_out' = <<[header |-> mg_fieldnames[1], rows |-> written]>>
            /\ IF written = mg_all_rows
               THEN /\ mg_pc' = "returned"
                    /\ mg_ret' = MergeTriple(mg_total_rows, mg_all_rows, mg_deduper)
               ELSE /\ mg_pc' = "raised"
                    /\ mg_ret' = mg_ret
       ELSE /\ mg_out' = mg_out
            /\ mg_pc' = "returned"
            /\ mg_ret' = MergeTriple(mg_total_rows, mg_all_rows, mg_deduper)
    /\ UNCHANGED <<mg_mode, mg_nfiles, mg_file, mg_kind, mg_kinds, mg_deduper,
                   mg_all_rows, mg_fieldnames, mg_total_rows, mg_read, mg_dups,
                   nu_vars, dd_vars, run_vars, sq_vars, fn_vars>>

-----------------------------------------------------------------------------
(* The execution step of the application *)

HasWeb == config.search_type \in {"Both (Recommended)", "Search API Only"}
\* the maps searcher made whatever the search type
MapsSearcherAlways == TRUE

HasMaps == config.search_type \in {"Both (Recommended)", "Maps API Only"}

\* the estimate with pages_per_query left out
estimate_without_pages(cf) ==
    (IF cf.search_type \in {"Both (Recommended)", "Search API Only"}
     THEN cf.queries * cf.cities ELSE 0)
    + (IF cf.search_type \in {"Both (Recommended)", "Maps API Only"}
       THEN cf.queries * cf.cities ELSE 0)

\* total_estimated_calls, the estimate shown before execution
total_estimated_calls(cf) ==
    (IF cf.search_type \in {"Both (Recommended)", "Search API Only"}
     THEN cf.queries * cf.cities * cf.pages ELSE 0)
    + (IF cf.search_type \in {"Both (Recommended)", "Maps API Only"}
       THEN cf.queries * cf.cities * cf.pages ELSE 0)

\* what the backends may answer
Seqs(S, n) == UNION {[1..k -> S] : k \in 0..n}
WebLinks == {U_a_x, U_a_x_slash, <<>>}
Failed == [ok |-> FALSE, blank |-> TRUE, organic |-> <<>>, ads |-> <<>>, shopping |-> <<>>,
           places |-> <<>>]
\* the request succeeds and the body is an empty JSON object
Blank == [Failed EXCEPT !.ok = TRUE]
WebOutcomes ==
    {Failed, Blank} \cup
    {out \in [ok : {TRUE}, blank : {FALSE}, organic : Seqs(WebLinks, MaxItems), ads : {<<>>, <<U_b>>},
              shopping : {<<>>, <<U_a_x>>}, places : {<<>>}] :
        Len(out.organic) + Len(out.ads) + Len(out.shopping) <= MaxItems}
P_1 == <<"p","1">>
P_1_upper == <<"P","1">>
Places == {[website |-> U_a_x, placeId |-> P_1],
           [website |-> <<>>, placeId |-> P_1],
           [website |-> <<>>, placeId |-> P_1_upper],
           [website |-> U_www_a_x, placeId |-> <<>>]}
MapsOutcomes ==
    {Failed, Blank} \cup
    {[ok |-> TRUE, blank |-> FALSE, organic |-> <<>>, ads |-> <<>>, shopping |-> <<>>, places |-> pl] :
        pl \in Seqs(Places, MaxItems)}

RunInit ==
    /\ run_pc = "start"
    /\ config \in {cf \in [search_type : {"Both (Recommended)", "Search API Only",
                                          "Maps API Only"},
                           cities : 1..MaxCities, queries : 1..MaxQueries,
                           pages : 1..MaxPages] :
                        cf.cities * cf.queries * cf.pages <= MaxCalls}
    /\ cs_available \in BOOLEAN
    /\ cloud_search_id = 0
    /\ searcher = NewSearcher
    /\ maps_searcher = NewMapsSearcher
    /\ city = 0 /\ query = 0 /\ page = 0
    /\ total_saved_count = 0
    /\ sink = EmptySink
    /\ reported = <<>>
    /\ last_flush = <<>>
    /\ last_call = <<>>
    /\ trace = <<>>
    /\ NormIdle /\ DedupIdle /\ MergeIdle /\ SearcherIdle /\ FnIdle

\* where the run goes when the loops of a phase are over or not entered
AfterWeb == IF HasMaps THEN "maps_call" ELSE "complete"

\* Start Real Search: create_search, the searchers, the first loop
StartSearch(created) ==
    /\ run_pc = "start"
    /\ cloud_search_id' = IF cs_available /\ created THEN 1 ELSE 0
    /\ sink' = IF cs_available /\ created
               THEN [sink EXCEPT !.search = <<[status |-> "running", total_results |-> 0,
                                               api_calls_used |-> 0]>>]
               ELSE sink
    /\ searcher' = NewSearcher
    /\ maps_searcher' = NewMapsSearcher
    /\ total_saved_count' = 0
    /\ city' = 1 /\ query' = 1 /\ page' = 1
    /\ run_pc' = IF HasWeb THEN "web_call" ELSE AfterWeb
    /\ UNCHANGED <<config, cs_available, reported, last_flush, last_call, trace, nu_vars, dd_vars, mg_vars, sq_vars, fn_vars>>

\* the loop counters after one pass of the page loop; flush names the step
\* that follows the last page of the last query of the city
Advance(call, flush) ==
    IF page < config.pages
    THEN /\ page' = page + 1 /\ UNCHANGED <<query, city>> /\ run_pc' = call
    ELSE IF query < config.queries
    THEN /\ page' = 1 /\ query' = query + 1 /\ UNCHANGED city /\ run_pc' = call
    ELSE /\ UNCHANGED <<page, query, city>> /\ run_pc' = flush

\* the entry of the run's history for a backend call: the loop counters and
\* the request made (the page number sent, and whether it succeeded)
CallEvent(source, request) ==
    [kind |-> "call", source |-> source, city |-> city, query |-> query, page_num |-> page,
     page |-> request.page, ok |-> request.ok]

\* the entry of the run's history for a flush_and_clear call
FlushEvent(source) == [kind |-> "flush", source |-> source, city |-> city]

\* the requests a searcher made since it was s0
NewRequests(s0, s1) == SubSeq(s1.requests, Len(s0.requests) + 1, Len(s1.requests))

\* one pass of the page loop of phase 1: searcher.search_single_query with
\* total_results=10
WebCall(out, written) ==
    /\ run_pc = "web_call"
    /\ \E s1 \in {search_single_query(searcher, <<query, city>>, 10, city, <<out>>, written)} :
        /\ searcher' = s1
        /\ trace' = trace \o [i \in 1..Len(NewRequests(searcher, s1)) |->
                                CallEvent("search", NewRequests(searcher, s1)[i])]
    /\ last_call' = <<[source |-> "search",
                        offered |-> SelectSeq(out.organic \o out.ads \o out.shopping,
                                              LAMBDA url : url # <<>>)]>>
    /\ Advance("web_call", "web_flush")
    /\ UNCHANGED <<config, cs_available, cloud_search_id, maps_searcher, total_saved_count,
                   sink, reported, last_flush, nu_vars, dd_vars, mg_vars, sq_vars, fn_vars>>

\* maps_searcher.all_results.extend(extract_maps_results(...))
MapsExtend(m, places, q, c) ==
    The({[m EXCEPT !.deduplicator = e.d, !.all_results = @ \o e.results] :
         e \in {extract_maps_results(m.deduplicator, places, q, c)}})

\* the maps searcher after one pass of the page loop of phase 2: search_maps,
\* then extract_maps_results and extend when the response holds places
MapsPass(m, page_number, out, q, c) ==
    IF ~EmptyResponse(out) /\ out.places # <<>>
    THEN The({MapsExtend(m1, out.places, q, c) : m1 \in {search_maps(m, page_number, out)}})
    ELSE search_maps(m, page_number, out)

\* one pass of the page loop of phase 2
MapsCall(out) ==
    /\ run_pc = "maps_call"
    /\ maps_searcher' = MapsPass(maps_searcher, page, out, query, city)
    /\ trace' = Append(trace, CallEvent("maps", [page |-> page, ok |-> out.ok]))
    /\ last_call' = <<[source |-> "maps",
                        offered |-> [i \in 1..Len(out.places) |-> MapsDedupKey(out.places[i])]]>>
    /\ Advance("maps_call", "maps_flush")
    /\ UNCHANGED <<config, cs_available, cloud_search_id, searcher, total_saved_count,
                   sink, reported, last_flush, nu_vars, dd_vars, mg_vars, sq_vars, fn_vars>>

\* a flush that saves the list and leaves it as it was
flush_and_keep(results_list, oks, updated) ==
    LET saving == results_list # <<>> /\ cloud_search_id # 0 /\ cs_available
        stored == IF saving THEN save_results(cs_available, cloud_search_id, results_list, oks)
                  ELSE <<>>
        total == IF saving THEN total_saved_count + Len(results_list) ELSE total_saved_count
    IN [stored |-> stored,
        total_saved_count |-> total,
        search |-> IF saving
                   THEN UpdateSearch(cs_available, cloud_search_id, sink.search,
                                     [total_results |-> total], updated)
                   ELSE sink.search,
        results_list |-> results_list]

\* flush_and_clear(results_list): the rows the results table gains (stored),
\* total_saved_count and the searches row afterwards; the list is emptied
flush_and_clear(results_list, oks, updated) ==
    LET saving == results_list # <<>> /\ cloud_search_id # 0 /\ cs_available
        stored == IF saving THEN save_results(cs_available, cloud_search_id, results_list, oks)
                  ELSE <<>>
        total == IF saving THEN total_saved_count + Len(results_list) ELSE total_saved_count
    IN [stored |-> stored,
        total_saved_count |-> total,
        search |-> IF saving
                   THEN UpdateSearch(cs_available, cloud_search_id, sink.search,
                                     [total_results |-> total], updated)
                   ELSE sink.search,
        results_list |-> <<>>]

\* the effect of a flush_and_clear call on the run
Flushed(source, results_list, f) ==
    /\ sink' = [results |-> sink.results \o f.stored, search |-> f.search]
    /\ total_saved_count' = f.total_saved_count
    /\ last_flush' = <<[source |-> source, before |-> results_list,
                        after |-> f.results_list, stored |-> f.stored]>>

\* the end of a city's pass in phase 1: flush_and_clear(searcher.all_results)
WebFlush(oks, updated) ==
    /\ run_pc = "web_flush"
    /\ \E f \in {flush_and_clear(searcher.all_results, oks, updated)} :
        /\ Flushed("search", searcher.all_results, f)
        /\ searcher' = [searcher EXCEPT !.all_results = f.results_list]
    /\ trace' = Append(trace, FlushEvent("search"))
    /\ IF city < config.cities
       THEN city' = city + 1 /\ query' = 1 /\ page' = 1 /\ run_pc' = "web_call"
       ELSE city' = 1 /\ query' = 1 /\ page' = 1 /\ run_pc' = AfterWeb
    /\ UNCHANGED <<config, cs_available, cloud_search_id, maps_searcher, reported,
                   last_call, nu_vars, dd_vars, mg_vars, sq_vars, fn_vars>>

\* the end of a city's pass in phase 2: flush_and_clear(maps_searcher.all_results)
MapsFlush(oks, updated) ==
    /\ run_pc = "maps_flush"
    /\ \E f \in {flush_and_clear(maps_searcher.all_results, oks, updated)} :
        /\ Flushed("maps", maps_searcher.all_results, f)
        /\ maps_searcher' = [maps_searcher EXCEPT !.all_results = f.results_list]
    /\ trace' = Append(trace, FlushEvent("maps"))
    /\ IF city < config.cities
       THEN city' = city + 1 /\ query' = 1 /\ page' = 1 /\ run_pc' = "maps_call"
       ELSE city' = 1 /\ query' = 1 /\ page' = 1 /\ run_pc' = "complete"
    /\ UNCHANGED <<config, cs_available, cloud_search_id, searcher, reported,
                   last_call, nu_vars, dd_vars, mg_vars, sq_vars, fn_vars>>

\* the api calls of the searchers that exist
ApiCallsUsed ==
    (IF HasWeb THEN searcher.api_call_count ELSE 0)
    + (IF HasMaps THEN maps_searcher.api_call_count ELSE 0)

\* the summary of the run: what complete_search is given, and what the
\* session state shows after a clean completion
Summary(status) ==
    [status |-> status, total_results |-> total_saved_count, api_calls_used |-> ApiCallsUsed]

\* after the loops: complete_search(status='completed') and the summary
Complete(updated) ==
    /\ run_pc = "complete"
    /\ sink' = [sink EXCEPT !.search =
                    UpdateSearch(cs_available, cloud_search_id, @, Summary("completed"), updated)]
    /\ reported' = <<Summary("completed")>>
    /\ run_pc' = "rerun"
    /\ UNCHANGED <<config, cs_available, cloud_search_id, searcher, maps_searcher, city,
                   query, page, total_saved_count, last_flush, last_call, trace, nu_vars, dd_vars, mg_vars, sq_vars, fn_vars>>

\* what the statement the run is at may raise: an Exception out of a search
\* call, the RerunException of st.rerun() after the summary
Raises ==
    IF run_pc \in {"web_call", "maps_call"} THEN "Exception"
    ELSE IF run_pc = "rerun" THEN "RerunException"
    ELSE ""

\* a handler that catches whatever is raised
ExceptCatchesAll(exc) == exc # ""

\* except Exception: the script control exceptions of the framework derive
\* from BaseException and pass through
ExceptCatches(exc) == exc = "Exception"

\* st.rerun() ends the script: its exception is not for the except branch
Rerun ==
    /\ run_pc = "rerun" /\ ~ExceptCatches(Raises)
    /\ run_pc' = "done"
    /\ UNCHANGED <<config, cs_available, cloud_search_id, searcher, maps_searcher, city,
                   query, page, total_saved_count, sink, reported, last_flush, last_call,
                   trace, nu_vars, dd_vars, mg_vars, sq_vars, fn_vars>>

\* an exception reaches the except branch, which records the run as
\* interrupted, with the count flushed so far, when a search record exists
Interrupt(updated) ==
    /\ ExceptCatches(Raises)
    /\ sink' = [sink EXCEPT !.search =
                    UpdateSearch(cs_available, cloud_search_id, @, Summary("interrupted"), updated)]
    /\ reported' = IF cloud_search_id # 0 THEN <<Summary("interrupted")>> ELSE reported
    /\ run_pc' = "interrupted"
    /\ UNCHANGED <<config, cs_available, cloud_search_id, searcher, maps_searcher, city,
                   query, page, total_saved_count, last_flush, last_call, trace, nu_vars, dd_vars, mg_vars, sq_vars, fn_vars>>

-----------------------------------------------------------------------------
(* One EnhancedSerperSearcher, its search_single_query, save_checkpoint and
   export_to_csv called in any order *)

\* EnhancedSerperSearcher.export_to_csv: the searcher afterwards and the
\* export file; the file is opened with 'w', so a failed write leaves it
\* without rows
export_to_csv(s, file, written, exported) ==
    The({[s |-> s1,
          file |-> IF s1.all_results = <<>> THEN file
                   ELSE IF exported THEN <<s1.all_results>> ELSE <<(<<>>)>>] :
         s1 \in {IF s.enable_checkpoints THEN save_checkpoint(s, written) ELSE s}})

\* the links of a full page of organic items: page p of the backend
PageLinks(p) ==
    [i \in 1..results_per_page |-> Https \o <<"a", ".", "c", "o", "m", "/", LowerLetters[i],
                                               LowerLetters[(p % 26) + 1]>>]

\* what the backend may answer to the call for page p
FullPage(p) == [ok |-> TRUE, blank |-> FALSE, organic |-> PageLinks(p), ads |-> <<>>,
                shopping |-> <<>>, places |-> <<>>]
ShortPage == [ok |-> TRUE, blank |-> FALSE, organic |-> <<U_a_x, U_a_x_slash>>, ads |-> <<U_b>>,
              shopping |-> <<>>, places |-> <<>>]
EmptyPage == [ok |-> TRUE, blank |-> FALSE, organic |-> <<>>, ads |-> <<>>, shopping |-> <<>>,
              places |-> <<>>]
PageOutcomes(p) == {Failed, Blank, EmptyPage, ShortPage, FullPage(p)}

\* the page of the backend the current call is at: each call sends a query
\* of its own, and the backend answers it with links of its own
BackendPage == sq_page + max_pages * (sq_calls - 1)

\* the outcomes of an append to the checkpoint file
WriteOutcomes == {[ok |-> TRUE, rows |-> 0], [ok |-> FALSE, rows |-> 0],
                  [ok |-> FALSE, rows |-> 1]}

\* the total_results values a caller passes: the application's 10, the
\* default 100, values between pages, and values at and beyond the ceiling
QueryTargets == {1, 10, 11, 25, 100, 1000, 1001}

\* the empty responses among the responses of the current call
EmptyCount(outs) == Cardinality({i \in 1..Len(outs) : EmptyResponse(outs[i])})

SearcherInit ==
    /\ sq_pc = "idle"
    /\ sq_plan \in {[calls |-> 1, targets |-> QueryTargets, ops |-> 0, clears |-> FALSE,
                     empties |-> MaxEmptyResponses],
                    [calls |-> MaxQueryCalls, targets |-> {10}, ops |-> MaxSearcherOps,
                     clears |-> FALSE, empties |-> MaxEmptyResponses],
                    [calls |-> MaxQueryCalls, targets |-> {checkpoint_interval}, ops |-> 1,
                     clears |-> TRUE, empties |-> 0]}
    /\ sq = NewSearcher
    /\ sq_calls = 0 /\ sq_ops = 0
    /\ sq_total_results = 0 /\ sq_total_pages = 0 /\ sq_page = 0
    /\ sq_start = NewSearcher /\ sq_outs = <<>> /\ sq_op = "" /\ sq_export = <<>>
    /\ sq_accepted = <<>> /\ sq_writes_ok = TRUE
    /\ NormIdle /\ DedupIdle /\ MergeIdle /\ RunIdle /\ FnIdle

\* search_single_query is entered: total_pages is computed
BeginQuery(total_results) ==
    /\ sq_pc = "idle" /\ sq_calls < sq_plan.calls
    /\ sq_pc' = "paging"
    /\ sq_calls' = sq_calls + 1
    /\ sq_total_results' = total_results
    /\ sq_total_pages' = total_pages_of(total_results)
    /\ sq_page' = 1
    /\ sq_start' = sq
    /\ sq_outs' = <<>>
    /\ sq_op' = "search_single_query"
    /\ UNCHANGED <<sq_plan, sq, sq_ops, sq_export, sq_accepted, sq_writes_ok,
                   nu_vars, dd_vars, mg_vars, run_vars, fn_vars>>

\* one pass of the page loop; after the last pass (the break, or the last
\* page) check_and_save_checkpoint runs and search_single_query returns
QueryPage(out, written) ==
    /\ sq_pc = "paging"
    /\ EmptyResponse(out) => EmptyCount(sq_outs) < sq_plan.empties
    /\ \E s1 \in {PageStep(sq, out, sq_calls, 1, sq_page)} :
        /\ sq_accepted' = sq_accepted \o SubSeq(s1.all_results, Len(sq.all_results) + 1,
                                                Len(s1.all_results))
        /\ IF Breaks(out) \/ sq_page = sq_total_pages
           THEN /\ sq' = check_and_save_checkpoint(s1, written)
                /\ sq_writes_ok' = (sq_writes_ok /\ written.ok)
                /\ sq_pc' = "idle"
                /\ sq_page' = sq_page
           ELSE /\ sq' = s1
                /\ sq_writes_ok' = sq_writes_ok
                /\ sq_pc' = "paging"
                /\ sq_page' = sq_page + 1
    /\ sq_outs' = Append(sq_outs, out)
    /\ UNCHANGED <<sq_plan, sq_calls, sq_ops, sq_total_results, sq_total_pages, sq_start,
                   sq_op, sq_export,
                   nu_vars, dd_vars, mg_vars, run_vars, fn_vars>>

\* save_checkpoint called by the owner of the searcher
SaveCheckpoint(written) ==
    /\ sq_pc = "idle" /\ sq_ops < sq_plan.ops
    /\ sq' = save_checkpoint(sq, written)
    /\ sq_writes_ok' = (sq_writes_ok /\ written.ok)
    /\ sq_ops' = sq_ops + 1
    /\ sq_op' = "save_checkpoint"
    /\ UNCHANGED <<sq_pc, sq_plan, sq_calls, sq_total_results, sq_total_pages, sq_page,
                   sq_start, sq_outs, sq_accepted,
                   sq_export, nu_vars, dd_vars, mg_vars, run_vars, fn_vars>>

\* export_to_csv called by the owner of the searcher
ExportToCsv(written, exported) ==
    /\ sq_pc = "idle" /\ sq_ops < sq_plan.ops
    /\ \E e \in {export_to_csv(sq, sq_export, written, exported)} :
        /\ sq' = e.s
        /\ sq_export' = e.file
    /\ sq_writes_ok' = (sq_writes_ok /\ written.ok)
    /\ sq_ops' = sq_ops + 1
    /\ sq_op' = "export_to_csv"
    /\ UNCHANGED <<sq_pc, sq_plan, sq_calls, sq_total_results, sq_total_pages, sq_page,
                   sq_start, sq_outs, sq_accepted,
                   nu_vars, dd_vars, mg_vars, run_vars, fn_vars>>

\* the owner of the searcher empties all_results in place between two calls,
\* as flush_and_clear does at the end of a city: del results_list[:]
ClearResults ==
    /\ sq_pc = "idle" /\ sq_plan.clears
    /\ sq.all_results # <<>>
    /\ sq' = [sq EXCEPT !.all_results = <<>>]
    /\ sq_op' = "flush_and_clear"
    /\ UNCHANGED <<sq_pc, sq_plan, sq_calls, sq_ops, sq_total_results, sq_total_pages, sq_page,
                   sq_start, sq_outs, sq_export, sq_accepted, sq_writes_ok,
                   nu_vars, dd_vars, mg_vars, run_vars, fn_vars>>

-----------------------------------------------------------------------------
(* The two-phase pipeline of the orchestrator: per-source collection, the two
   exports, and merge_csv_files over them with deduplicate_by='domain' *)

\* EnhancedSerperSearcher.extract_domain, and the same lines inside
\* extract_maps_results: the netloc without a leading www., '' when urlparse
\* raises
searcher_extract_domain(url) ==
    The({IF parsed.ok THEN StripWww(parsed.netloc) ELSE <<>> : parsed \in {urlparse(url)}})

\* the row export_to_csv writes for a record, as csv.DictReader yields it
ExportRow(r) ==
    IF r.kind = "search"
    THEN Row("web", r.url, searcher_extract_domain(r.url), {})
    ELSE Row("maps", <<>>,
             IF r.website # <<>> THEN searcher_extract_domain(r.website) ELSE <<>>, {})

\* the file an export_to_csv call returns: <<>> for None (nothing to export)
ExportFile(kind, results) ==
    IF results = <<>> THEN <<>>
    ELSE <<[kind |-> kind, rows |-> [i \in 1..Len(results) |-> ExportRow(results[i])]]>>

\* the row loop of merge_csv_files over the rows of one file, from position
\* pos of the rows read: the deduper and all_rows afterwards
RECURSIVE MergeFileRows(_, _, _, _, _, _)
MergeFileRows(mode, d, all_rows, rows, file, pos) ==
    IF rows = <<>> THEN [d |-> d, all_rows |-> all_rows, pos |-> pos]
    ELSE The({IF r.raised THEN [d |-> r.d, all_rows |-> all_rows, pos |-> pos + 1]
              ELSE MergeFileRows(mode, r.d,
                                 IF r.keep
                                 THEN Append(all_rows, [pos |-> pos, file |-> file,
                                                        row |-> Head(rows)])
                                 ELSE all_rows,
                                 Tail(rows), file, pos + 1) :
              r \in {MergeRow(mode, d, Head(rows))}})

\* the file loop of merge_csv_files
RECURSIVE MergeFiles(_, _, _, _, _, _)
MergeFiles(mode, d, all_rows, files, file, pos) ==
    IF files = <<>> THEN all_rows
    ELSE The({MergeFiles(mode, m.d, m.all_rows, Tail(files), file + 1, m.pos) :
              m \in {MergeFileRows(mode, d, all_rows, Head(files).rows, file, pos)}})

\* merge_csv_files(file_paths, output_path, deduplicate_by) over files that
\* exist: the output file, <<>> when it is not written; the header is the
\* first file's, and writerows stops at the first row with another column
merge_csv_files(file_paths, deduplicate_by) ==
    The({IF all_rows # <<>> /\ file_paths # <<>>
         THEN <<[header |-> FieldnamesOf(file_paths[1].kind)[1],
                 rows |-> WrittenPrefix(all_rows, FieldnamesOf(file_paths[1].kind)[1])]>>
         ELSE <<>> :
         all_rows \in {MergeFiles(deduplicate_by, NewDeduplicator, <<>>, file_paths, 1, 1)}})

\* run_phase1_search: the estimate of the API calls it displays
estimated_calls(keywords, cities, query_count, results_per_query) ==
    keywords * cities * query_count * (results_per_query \div 10)

\* the list with the maps export ahead of the web export
files_maps_first(phase1_file, phase2_file) == phase2_file \o phase1_file

\* merge_results: files_to_merge, phase 1 ahead of phase 2, None left out
files_to_merge(phase1_file, phase2_file) == phase1_file \o phase2_file

\* merge_results: nothing to merge, the one file as it is, or the merge
merge_results(phase1_file, phase2_file) ==
    The({IF Len(files) = 0 THEN <<>>
         ELSE IF Len(files) = 1
         THEN <<[header |-> FieldnamesOf(files[1].kind)[1],
                 rows |-> [i \in 1..Len(files[1].rows) |->
                            [pos |-> i, file |-> 1, row |-> files[1].rows[i]]]]>>
         ELSE merge_csv_files(files, "domain") :
         files \in {files_to_merge(phase1_file, phase2_file)}})

\* what the two backends return for the businesses of a city
U_A_y == Https \o <<"A",".","c","o","m","/","y">>
U_WWW_a_z == Https \o <<"W","W","W",".","a",".","c","o","m","/","z">>
U_www_a_c == Https \o <<"w","w","w",".","a",".","c","o","m","/","c">>
U_b_c == Https \o <<"b",".","c","o","m","/","c">>
PipelineLinks == {U_a_x, U_www_a_x, U_A_y, U_b, U_noscheme}
PipelinePlaces == {[website |-> U_a_y, placeId |-> P_1],
                   [website |-> U_www_a_c, placeId |-> P_1],
                   [website |-> U_WWW_a_z, placeId |-> P_1],
                   [website |-> U_b_c, placeId |-> P_1],
                   [website |-> <<>>, placeId |-> P_1]}

PipelineInit ==
    /\ fn_pc = "call"
    /\ fn_args \in [links : Seqs(PipelineLinks, MaxPipelineItems),
                    places : Seqs(PipelinePlaces, MaxPipelineItems)]
    /\ fn_ret = <<>>
    /\ NormIdle /\ DedupIdle /\ MergeIdle /\ RunIdle /\ SearcherIdle

\* run_phase1_search: a searcher of its own collects, then exports
Phase1Search ==
    /\ fn_pc = "call"
    /\ \E e \in {extract_results(NewDeduplicator, fn_args.links, 1, "organic", 1)} :
        fn_ret' = <<[collected1 |-> e.results, phase1_file |-> ExportFile("web", e.results)]>>
    /\ fn_pc' = "phase1"
    /\ UNCHANGED <<fn_args, nu_vars, dd_vars, mg_vars, run_vars, sq_vars>>

\* run_phase2_maps: a maps searcher of its own collects, then exports
Phase2Maps ==
    /\ fn_pc = "phase1"
    /\ \E e \in {extract_maps_results(NewDeduplicator, fn_args.places, 1, 1)} :
        fn_ret' = <<[collected1 |-> fn_ret[1].collected1,
                     phase1_file |-> fn_ret[1].phase1_file,
                     collected2 |-> e.results,
                     phase2_file |-> ExportFile("maps", e.results)]>>
    /\ fn_pc' = "phase2"
    /\ UNCHANGED <<fn_args, nu_vars, dd_vars, mg_vars, run_vars, sq_vars>>

\* merge_results
MergeResults ==
    /\ fn_pc = "phase2"
    /\ fn_ret' = <<[collected1 |-> fn_ret[1].collected1,
                    phase1_file |-> fn_ret[1].phase1_file,
                    collected2 |-> fn_ret[1].collected2,
                    phase2_file |-> fn_ret[1].phase2_file,
                    final_file |-> merge_results(fn_ret[1].phase1_file,
                                                 fn_ret[1].phase2_file)]>>
    /\ fn_pc' = "returned"
    /\ UNCHANGED <<fn_args, nu_vars, dd_vars, mg_vars, run_vars, sq_vars>>

-----------------------------------------------------------------------------
(* Functions called on their own: extract_maps_results of a new maps
   searcher, deduplicate_csv, analyze_phase1_coverage *)

\* the places a backend response may hold
U_place_abc_upper == <<"P","L","A","C","E","_","I","D",":","A","B","C","/">>
P_abc == <<"a","b","c">>
CallPlaces == {[website |-> <<>>, placeId |-> P_1],
               [website |-> <<>>, placeId |-> P_1_upper],
               [website |-> <<>>, placeId |-> P_abc],
               [website |-> <<>>, placeId |-> <<>>],
               [website |-> U_place_abc, placeId |-> P_1],
               [website |-> U_place_abc_upper, placeId |-> <<>>],
               [website |-> U_a_x, placeId |-> P_1]}

\* deduplicate_csv, the body of the row loop after total_rows += 1: seen and
\* unique_rows afterwards; a row is [pos, row], pos being its line in the input
DeduplicateRow(st, entry, key, keep) ==
    LET cell == Strip(IF key = "url" THEN entry.row.url ELSE entry.row.domain) IN
    IF cell = <<>> THEN st
    ELSE The({IF key_value \notin st.seen
              THEN [seen |-> st.seen \cup {key_value},
                    unique_rows |-> Append(st.unique_rows, entry)]
              ELSE IF keep = "last"
              THEN [seen |-> st.seen,
                    unique_rows |->
                        Append(SelectSeq(st.unique_rows,
                                         LAMBDA r : normalize_url(IF key = "url" THEN r.row.url
                                                                  ELSE r.row.domain)
                                                    # key_value),
                               entry)]
              ELSE st :
              key_value \in {IF key = "url" THEN normalize_url(cell)
                             ELSE extract_domain(cell)}})

RECURSIVE DeduplicateRows(_, _, _, _)
DeduplicateRows(st, entries, key, keep) ==
    IF entries = <<>> THEN st.unique_rows
    ELSE The({DeduplicateRows(st1, Tail(entries), key, keep) :
              st1 \in {DeduplicateRow(st, Head(entries), key, keep)}})

\* deduplicate_csv(csv_path, output_path, key, keep): the rows written
deduplicate_csv(rows, key, keep) ==
    DeduplicateRows([seen |-> {}, unique_rows |-> <<>>],
                    [i \in 1..Len(rows) |-> [pos |-> i, row |-> rows[i]]], key, keep)

\* the rows of an input file of deduplicate_csv
CsvRows == {Row("web", U_a_x, D_a, {}),
            Row("web", U_a_x_slash, D_A, {}),
            Row("web", U_a_y, D_a, {}),
            Row("web", U_b, D_b, {}),
            Row("web", <<>>, <<>>, {})}

\* the cities phase 1 searched
CoverageCities == <<"A", "B", "C">>

\* analyze_phase1_coverage, the reading loop: city_counts as the sequence of
\* its items in insertion order. The rows are taken one city at a time: the
\* entry of a city is made at its first row and counts all its rows
RECURSIVE CityCounts(_, _)
CityCounts(cells, items) ==
    IF cells = <<>> THEN items
    ELSE \* the rows of the city of the first row left
         LET n == Cardinality({i \in 1..Len(cells) : cells[i] = Head(cells)}) IN
         CityCounts(SelectSeq(cells, LAMBDA cell : cell # Head(cells)),
                    IF \E i \in 1..Len(items) : items[i].city = Head(cells)
                    THEN [i \in 1..Len(items) |->
                            IF items[i].city = Head(cells)
                            THEN [items[i] EXCEPT !.count = @ + n] ELSE items[i]]
                    ELSE Append(items, [city |-> Head(cells), count |-> n]))

\* sorted(city_counts.items(), key=lambda x: x[1]): a stable sort by count
RECURSIVE SortedByCount(_)
SortedByCount(items) ==
    IF items = <<>> THEN <<>>
    ELSE LET least == CHOOSE i \in 1..Len(items) :
                        /\ \A j \in 1..Len(items) : items[i].count <= items[j].count
                        /\ \A j \in 1..(i - 1) : items[j].count # items[i].count
         IN <<items[least]>>
            \o SortedByCount([j \in 1..(Len(items) - 1) |->
                                IF j < least THEN items[j] ELSE items[j + 1]])

\* count <= threshold, for threshold = (total_results / len(city_counts)) * 0.5
AtOrBelowThreshold(count, total_results, groups) == 2 * count * groups <= total_results

\* count < threshold, for threshold = (total_results / len(city_counts)) * 0.5:
\* the division and the halving are exact on the counts of a file, so the
\* comparison of floats is the comparison of the fractions
BelowThreshold(count, total_results, groups) == 2 * count * groups < total_results

\* the analysis with every searched city counted from zero
analyze_searched_cities(file, readable) ==
    IF file = <<>> \/ ~readable THEN <<>>
    ELSE The({The({[i \in 1..Len(low) |-> low[i].city] :
                   low \in {SelectSeq(SortedByCount(city_counts),
                                      LAMBDA item : BelowThreshold(item.count, Len(file[1]),
                                                                   Len(city_counts)))}}) :
              city_counts \in {CityCounts(file[1],
                                          [i \in 1..3 |-> [city |-> CoverageCities[i],
                                                           count |-> 0]])}})

\* LeadGenerationOrchestrator.analyze_phase1_coverage: file is <<>> for a
\* phase1_file of None, <<cells>> for the city cells of the rows of the file;
\* readable is FALSE when reading the file raises
analyze_phase1_coverage(file, readable) ==
    IF file = <<>> \/ ~readable THEN <<>>
    ELSE The({IF city_counts = <<>> THEN <<>>
              ELSE The({[i \in 1..Len(low) |-> low[i].city] :
                        low \in {SelectSeq(SortedByCount(city_counts),
                                           LAMBDA item : BelowThreshold(item.count, Len(file[1]),
                                                                        Len(city_counts)))}}) :
              city_counts \in {CityCounts(file[1], <<>>)}})

\* the city cells of a phase-1 file that holds counts[c] rows of each city c
Repeat(cell, n) == [i \in 1..n |-> cell]
CellsOf(counts) ==
    Repeat(CoverageCities[1], counts[1]) \o Repeat(CoverageCities[2], counts[2])
    \o Repeat(CoverageCities[3], counts[3])
ExampleCounts == <<100, 40, 10>>

\* the calls: the function and its arguments
CallArgs ==
    {[fn |-> "extract_maps_results", places |-> places] :
        places \in Seqs(CallPlaces, MaxCallPlaces)}
    \cup {[fn |-> "deduplicate_csv", rows |-> rows, key |-> key, keep |-> keep] :
            rows \in Seqs(CsvRows, MaxCsvRows), key \in {"url", "domain"},
            keep \in {"first", "last"}}
    \cup UNION {{[fn |-> "analyze_phase1_coverage", searched |-> counts, file |-> file,
                  readable |-> readable] :
                    file \in {<<>>, <<CellsOf(counts)>>}, readable \in BOOLEAN} :
                 counts \in [1..3 -> 0..MaxCityRecords] \cup {ExampleCounts}}

CallInit ==
    /\ fn_pc = "call"
    /\ fn_args \in CallArgs
    /\ fn_ret = <<>>
    /\ NormIdle /\ DedupIdle /\ MergeIdle /\ RunIdle /\ SearcherIdle

\* extract_maps_results of a SerperMapsSearcher just made
ExtractMapsResults ==
    /\ fn_pc = "call" /\ fn_args.fn = "extract_maps_results"
    /\ fn_ret' = <<extract_maps_results(NewDeduplicator, fn_args.places, 1, 1).results>>
    /\ fn_pc' = "returned"
    /\ UNCHANGED <<fn_args, nu_vars, dd_vars, mg_vars, run_vars, sq_vars>>

DeduplicateCsv ==
    /\ fn_pc = "call" /\ fn_args.fn = "deduplicate_csv"
    /\ fn_ret' = <<deduplicate_csv(fn_args.rows, fn_args.key, fn_args.keep)>>
    /\ fn_pc' = "returned"
    /\ UNCHANGED <<fn_args, nu_vars, dd_vars, mg_vars, run_vars, sq_vars>>

AnalyzePhase1Coverage ==
    /\ fn_pc = "call" /\ fn_args.fn = "analyze_phase1_coverage"
    /\ fn_ret' = <<analyze_phase1_coverage(fn_args.file, fn_args.readable)>>
    /\ fn_pc' = "returned"
    /\ UNCHANGED <<fn_args, nu_vars, dd_vars, mg_vars, run_vars, sq_vars>>

-----------------------------------------------------------------------------
(* Specifications *)

NormNext == NormalizeOnce \/ NormalizeTwice
SpecNorm == NormInit /\ [][NormNext]_vars

DedupNext ==
    \/ \E u \in DedupUrlPool : AddUrl(u)
    \/ \E dom \in DedupDomainPool : AddDomain(dom)
SpecDedup == DedupInit /\ [][DedupNext]_vars

MergeNext ==
    \/ \E kind \in {"web", "maps", "empty"} : MergeOpenFile(kind)
    \/ MergeFileNotFound
    \/ \E row \in RowsOf(mg_kind) : MergeReadRow(row)
    \/ MergeEndOfFile
    \/ MergeReadError
    \/ MergeWriteAndReturn
SpecMerge == MergeInit /\ [][MergeNext]_vars

SearcherNext ==
    \/ \E total_results \in sq_plan.targets : BeginQuery(total_results)
    \/ \E out \in PageOutcomes(BackendPage), written \in WriteOutcomes : QueryPage(out, written)
    \/ \E written \in WriteOutcomes : SaveCheckpoint(written)
    \/ \E written \in WriteOutcomes, exported \in BOOLEAN : ExportToCsv(written, exported)
    \/ ClearResults
SpecSearcher == SearcherInit /\ [][SearcherNext]_vars

CallNext == ExtractMapsResults \/ DeduplicateCsv \/ AnalyzePhase1Coverage
SpecCall == CallInit /\ [][CallNext]_vars

PipelineNext == Phase1Search \/ Phase2Maps \/ MergeResults
SpecPipeline == PipelineInit /\ [][PipelineNext]_vars

\* whether the append to the checkpoint file can happen in this call
Writes(s) == IF Len(s.all_results) + 3 * MaxItems - s.last_checkpoint_count >= checkpoint_interval
             THEN [ok : BOOLEAN, rows : 0..(3 * MaxItems)] ELSE {[ok |-> TRUE, rows |-> 0]}
\* the outcomes of the chunk inserts of a flush of n records
ChunkOutcomes(n) == IF n = 0 \/ cloud_search_id = 0 THEN {<<>>}
                    ELSE [1..ChunkCount(n) -> BOOLEAN]
\* the outcomes of an update of the searches row
UpdateOutcomes == IF cloud_search_id = 0 THEN {TRUE} ELSE BOOLEAN

Next ==
    \/ \E created \in (IF cs_available THEN BOOLEAN ELSE {FALSE}) : StartSearch(created)
    \/ \E out \in WebOutcomes, written \in Writes(searcher) : WebCall(out, written)
    \/ \E oks \in ChunkOutcomes(Len(searcher.all_results)), updated \in UpdateOutcomes :
            WebFlush(oks, updated)
    \/ \E out \in MapsOutcomes : MapsCall(out)
    \/ \E oks \in ChunkOutcomes(Len(maps_searcher.all_results)), updated \in UpdateOutcomes :
            MapsFlush(oks, updated)
    \/ \E updated \in UpdateOutcomes : Complete(updated)
    \/ \E updated \in UpdateOutcomes : Interrupt(updated)
    \/ Rerun
Spec == RunInit /\ [][Next]_vars

-----------------------------------------------------------------------------
(* Properties of the Deduplicator *)

Range(s) == {s[i] : i \in 1..Len(s)}
CountOf(s, v) == Cardinality({i \in 1..Len(s) : s[i] = v})
DistinctNormalized == {normalize_url(u) : u \in Range(submitted)}

\* C1: dedup soundness. For the sequence of URLs submitted so far to add_url on
\* a fresh Deduplicator, with D the number of distinct normalized values in it,
\* add_url has returned True exactly D times and False exactly N - D times, and
\* seen_urls is exactly the set of those D normalized values.
C1_DedupSoundness ==
    /\ Len(returned) = Len(submitted)
    /\ CountOf(returned, TRUE) = Cardinality(DistinctNormalized)
    /\ CountOf(returned, FALSE) = Len(submitted) - Cardinality(DistinctNormalized)
    /\ dd.seen_urls = DistinctNormalized

\* C1 witness: a full-length submission in which a later URL, written
\* differently from an earlier one, was rejected as its duplicate, and another
\* later URL was accepted.
C1_Witness ==
    /\ Len(submitted) = MaxSubmit
    /\ \E i, j \in 1..Len(submitted) :
        /\ i < j /\ submitted[i] # submitted[j]
        /\ normalize_url(submitted[i]) = normalize_url(submitted[j])
        /\ returned[j] = FALSE
    /\ \E k \in 2..Len(submitted) : returned[k] = TRUE

\* C2: https://a.com/x, https://a.com/x/ and https://www.a.com/x submitted in
\* that order to a fresh Deduplicator are answered True, False, False.
C2_ThreeSpellingsOneIdentity ==
    (Len(submitted) >= 3 /\ SubSeq(submitted, 1, 3) = <<U_a_x, U_a_x_slash, U_www_a_x>>)
        => SubSeq(returned, 1, 3) = <<TRUE, FALSE, FALSE>>

\* C3: normalize_url is idempotent: normalizing the output of normalize_url
\* gives that output again, for every input text.
C3_NormalizeIdempotent ==
    nu_pc = "twice" => nu_out[2] = nu_out[1]

-----------------------------------------------------------------------------
(* Properties of merge_csv_files *)

\* the key cell of a row under the mode, and whether the line carries it
KeyCell(row) == IF mg_mode = "url" THEN row.url ELSE row.domain
CellPresent(row) == ~(mg_mode \in row.none)

\* the identity the deduper compares: the stripped cell, normalized for the mode
KeyValue(row) ==
    IF mg_mode = "url" THEN normalize_url(Strip(row.url)) ELSE Lower(Strip(row.domain))

\* the row has a key: its cell is present and not blank
HasKey(row) == CellPresent(row) /\ Strip(KeyCell(row)) # <<>>

\* the rows written to the output file
MergedRows == IF mg_out = <<>> THEN <<>> ELSE mg_out[1].rows

\* the first row read that has this row's key
IsFirstOfKey(e) ==
    /\ HasKey(e.row)
    /\ \A q \in Range(mg_read) :
        (q.pos < e.pos /\ HasKey(q.row)) => KeyValue(q.row) # KeyValue(e.row)

\* the same, with a blank cell counted as a key value like any other
IsFirstOfCellValue(e) ==
    /\ CellPresent(e.row)
    /\ \A q \in Range(mg_read) :
        (q.pos < e.pos /\ CellPresent(q.row)) => KeyValue(q.row) # KeyValue(e.row)

Keyless == {e \in Range(mg_read) : mg_mode # "none" /\ ~HasKey(e.row)}

\* C5 as claimed: the returned triple (total, unique, duplicates) satisfies
\* total = unique + duplicates, with total the number of rows read, unique the
\* number of rows written and duplicates the number of rows rejected because
\* their key was already seen.
C5_ConservationAsClaimed ==
    mg_pc = "returned" =>
        /\ mg_ret[1] = Len(mg_read)
        /\ mg_ret[2] = Len(MergedRows)
        /\ mg_ret[3] = Cardinality(mg_dups)
        /\ mg_ret[1] = mg_ret[2] + mg_ret[3]

\* C5 amended: the returned triple satisfies total = unique + duplicates, with
\* total the number of rows read, unique the number of rows written and
\* duplicates the number of rows read and not kept: the rows rejected because
\* their key was already seen together with the rows that have no key (a blank
\* or missing key cell).
C5_Conservation ==
    mg_pc = "returned" =>
        /\ mg_ret[1] = Len(mg_read)
        /\ mg_ret[2] = Len(MergedRows)
        /\ mg_ret[3] = Cardinality(mg_dups) + Cardinality(Keyless)
        /\ mg_ret[1] = mg_ret[2] + mg_ret[3]

\* C5 witness: a merge of two opened files has returned after rejecting a
\* duplicate, dropping a row with a blank key and keeping a row.
C5_Witness ==
    /\ mg_pc = "returned"
    /\ Cardinality({i \in 1..Len(mg_kinds) : mg_kinds[i] \in {"web", "maps"}}) = 2
    /\ mg_dups # {}
    /\ Keyless # {}
    /\ mg_ret[2] >= 1

C7_MergeWritesUnionOfFields ==
    ( /\ mg_pc \in {"returned", "raised"}
      /\ mg_kinds = <<"web", "maps">> /\ mg_mode = "domain"
      /\ mg_all_rows # <<>> ) =>
        /\ mg_pc = "returned"
        /\ mg_out # <<>>
        /\ mg_out[1].header = UNION {RowKeys(e.row) : e \in Range(mg_all_rows)}
        /\ mg_out[1].rows = mg_all_rows

-----------------------------------------------------------------------------
(* Properties of the execution step *)

\* the key a record was accepted under: the link of a web record, the
\* website or the place id of a maps record
KeyOf(rec) ==
    IF rec.kind = "search" THEN rec.url
    ELSE MapsDedupKey([website |-> rec.website, placeId |-> rec.place_id])

\* the records the results table holds for a source, in the order stored
StoredRecords(source) ==
    LET rows == SelectSeq(sink.results, LAMBDA row : row.source = source)
    IN [i \in 1..Len(rows) |-> rows[i].rec]

\* the normalized keys of a list of records
NormalizedKeys(recs) == [i \in 1..Len(recs) |-> normalize_url(KeyOf(recs[i]))]

\* no value occurs twice in the list
NoRepeat(keys) == \A i, j \in 1..Len(keys) : i # j => keys[i] # keys[j]

\* the records stored for a searcher and the records it holds carry
\* pairwise distinct normalized keys, all of them seen by its Deduplicator
DistinctAccepted(source, s) ==
    \E keys \in {NormalizedKeys(StoredRecords(source) \o s.all_results)} :
        /\ NoRepeat(keys)
        /\ \A i \in 1..Len(keys) : keys[i] \in s.deduplicator.seen_urls

\* C4: within a run, for each searcher, every normalized key occurs at most
\* once among the records in all_results and the records flushed to the sink,
\* after any sequence of search calls and flush_and_clear calls
C4_NoSharedKeyAcrossFlushes ==
    /\ DistinctAccepted("search", searcher)
    /\ DistinctAccepted("maps", maps_searcher)

\* a key stored by the flush of the first city is offered again by the search
\* call of the second city, and the searcher holds no record after that call
C4_Witness ==
    /\ run_pc = "web_flush" /\ city = 2
    /\ last_call # <<>> /\ last_call[1].source = "search"
    /\ searcher.api_call_count = 2
    /\ searcher.all_results = <<>>
    /\ \E i \in 1..Len(sink.results), j \in 1..Len(last_call[1].offered) :
        /\ sink.results[i].source = "search"
        /\ normalize_url(KeyOf(sink.results[i].rec)) = normalize_url(last_call[1].offered[j])

\* C8: after flush_and_clear(buffer) the buffer is empty and the sink has
\* received exactly the records the buffer held before the call, each once,
\* whatever the state of the sink
C8_FlushClear ==
    last_flush # <<>> =>
        /\ last_flush[1].after = <<>>
        /\ [i \in 1..Len(last_flush[1].stored) |-> last_flush[1].stored[i].rec]
               = last_flush[1].before

\* C9: with the sink unavailable, the records a searcher accepted are still
\* held in its all_results after the flush step of the city
C9_KeptInMemoryWhenUnavailable ==
    (~cs_available /\ last_flush # <<>>) => last_flush[1].after = last_flush[1].before

\* C10: the total_results reported for the run, at completion and on
\* interruption, is the number of records the sink stored
C10_ReportedEqualsStored ==
    reported # <<>> => reported[1].total_results = Len(sink.results)

-----------------------------------------------------------------------------
(* Properties of the backend calls *)

\* C11: the api_call_count of each searcher is the number of backend calls
\* it attempted, a failed call counted like a successful one
C11_CounterCountsAttempts ==
    /\ searcher.api_call_count = Len(searcher.requests)
    /\ maps_searcher.api_call_count = Len(maps_searcher.requests)

\* the least k with k * b >= a
CeilDiv(a, b) == CHOOSE k \in 0..a : k * b >= a /\ (k - 1) * b < a

\* the page numbers the current search_single_query call has requested, in order
PagesRequested == [i \in 1..Len(NewRequests(sq_start, sq)) |-> NewRequests(sq_start, sq)[i].page]

\* C12: one call of search_single_query with total_results >= 1 issues at
\* most min(ceil(total_results / 10), 10) backend page calls, whatever the
\* backend answers
C12_PaginationCeiling ==
    sq_calls > 0 =>
        /\ Len(PagesRequested) <= Min(CeilDiv(sq_total_results, 10), 10)
        /\ Len(PagesRequested) <= 10

\* a call with total_results = 1000 has returned after ten page calls
C12_Witness ==
    /\ sq_pc = "idle" /\ sq_calls = 1
    /\ sq_total_results = 1000
    /\ Len(PagesRequested) = 10

\* C13: within one search_single_query, once the backend call for a page has
\* returned fewer than 10 organic items (none included), no call for a later
\* page is issued: that response is the last of the call, and the call is over
C13_EarlyExit ==
    \A i \in 1..Len(sq_outs) :
        (sq_outs[i].ok /\ Len(sq_outs[i].organic) < 10) =>
            (i = Len(sq_outs) /\ sq_pc = "idle")

\* a failed call is in the responses of the current call
FailedAt(i) == i \in 1..Len(sq_outs) /\ ~sq_outs[i].ok

\* the pass of the page loop that has just run met a failed call
FailedPass == Len(sq_outs') = Len(sq_outs) + 1 /\ ~sq_outs'[Len(sq_outs')].ok

\* C14: a failed backend call inside search_single_query is not fatal and not
\* retried: the pass adds no record and no identity, the pages requested are
\* 1, 2, ... each once, and the call goes on to the next page if one remains
C14_FailedCallNotFatalNotRetried ==
    /\ [](\A i \in 1..Len(PagesRequested) : PagesRequested[i] = i)
    /\ [](\A i \in 1..Len(sq_outs) :
            (FailedAt(i) /\ i < sq_total_pages) => (Len(sq_outs) > i \/ sq_pc = "paging"))
    /\ [][FailedPass => /\ sq'.all_results = sq.all_results
                        /\ sq'.deduplicator = sq.deduplicator
                        /\ sq_pc' = IF sq_page < sq_total_pages THEN "paging" ELSE "idle"]_vars

\* the call for page 1 failed, page 2 was requested and its records were taken
C14_Witness ==
    /\ Len(sq_outs) >= 2 /\ FailedAt(1)
    /\ PagesRequested[2] = 2 /\ sq_outs[2] = FullPage(2)
    /\ Len(sq.all_results) = Len(sq_start.all_results) + 10

-----------------------------------------------------------------------------
(* Properties of the run's loops *)

\* the positions of the run's history that are backend calls of a source
CallsOf(source) ==
    {i \in 1..Len(trace) : trace[i].kind = "call" /\ trace[i].source = source}

\* the positions of the run's history that are flushes of a source
FlushesOf(source) ==
    {i \in 1..Len(trace) : trace[i].kind = "flush" /\ trace[i].source = source}

\* the web phase has run to its end
WebPhaseOver == HasWeb /\ run_pc \in {"maps_call", "maps_flush", "complete", "rerun", "done"}

\* C15: for every city, every query and every page number p in
\* 1..pages_per_query, the web phase calls the web backend with page number p
\* exactly once
C15_EachPageCalledOnce ==
    WebPhaseOver =>
        \A c \in 1..config.cities, q \in 1..config.queries, p \in 1..config.pages :
            Cardinality({i \in CallsOf("search") :
                            trace[i].city = c /\ trace[i].query = q /\ trace[i].page = p}) = 1

\* the number of sources a search type selects
SourcesSelected(cf) ==
    CASE cf.search_type = "Both (Recommended)" -> 2
      [] cf.search_type \in {"Search API Only", "Maps API Only"} -> 1

C17_PhaseOrder ==
    /\ \A i \in CallsOf("search"), j \in CallsOf("maps") : i < j
    /\ config.search_type = "Search API Only" =>
            CallsOf("maps") = {} /\ maps_searcher.requests = <<>>
    /\ config.search_type = "Maps API Only" =>
            CallsOf("search") = {} /\ searcher.requests = <<>>

\* a run with both sources has completed with calls of both in its history
C17_Witness ==
    /\ run_pc = "done" /\ config.search_type = "Both (Recommended)"
    /\ Cardinality(CallsOf("search")) = 2 /\ Cardinality(CallsOf("maps")) = 2

\* the positions of the run's history where the flush of a source for city k is
FlushesFor(source, k) == {i \in FlushesOf(source) : trace[i].city = k}

\* in the history of one source: the flush of a city comes once, after every
\* call of that city, and every call of a later city comes after it
FlushedPerCity(source) ==
    /\ \A k \in 1..MaxCities : Cardinality(FlushesFor(source, k)) <= 1
    /\ \A i \in CallsOf(source), j \in FlushesOf(source) :
            /\ trace[j].city = trace[i].city => i < j
            /\ trace[j].city < trace[i].city => j < i
    /\ \A i \in CallsOf(source) : \A k \in 1..(trace[i].city - 1) : FlushesFor(source, k) # {}

\* the records of a list all carry the city c
OfCity(results_list, c) == \A i \in 1..Len(results_list) : results_list[i].city = c

\* C18: for each active source the flush of a city runs exactly once, after
\* all its queries and pages and before the first call of the next city; at
\* the start of a city's iteration the source's all_results is empty, and it
\* never holds records of two cities at once
C18_FlushPerCity ==
    /\ FlushedPerCity("search") /\ FlushedPerCity("maps")
    /\ run_pc = "done" =>
            \A k \in 1..config.cities :
                /\ HasWeb => Cardinality(FlushesFor("search", k)) = 1
                /\ HasMaps => Cardinality(FlushesFor("maps", k)) = 1
    /\ run_pc = "web_call" /\ query = 1 /\ page = 1 => searcher.all_results = <<>>
    /\ run_pc = "maps_call" /\ query = 1 /\ page = 1 => maps_searcher.all_results = <<>>
    /\ OfCity(searcher.all_results, city)
    /\ OfCity(maps_searcher.all_results, city)

\* the second city's iteration of phase 1 holds a record of its own after the
\* first city's records were flushed
C18_Witness ==
    /\ run_pc = "web_flush" /\ city = 2
    /\ searcher.all_results # <<>>
    /\ FlushesFor("search", 1) # {}
    /\ \E i \in 1..Len(sink.results) : sink.results[i].city = 1

\* C19: a run whose search record was created ends with status 'completed'
\* when execution finished without an exception and 'interrupted' when an
\* exception escaped the loops, then with the count flushed before the
\* failure as total_results; no run is left 'running' after execution ends
C19_RunStatus ==
    cloud_search_id # 0 =>
        /\ run_pc = "done" => sink.search[1].status = "completed"
        /\ run_pc = "interrupted" =>
                /\ sink.search[1].status = "interrupted"
                /\ sink.search[1].total_results = total_saved_count
        /\ run_pc \in {"done", "interrupted"} => sink.search[1].status # "running"

-----------------------------------------------------------------------------
(* Properties of the checkpoint file *)

\* f is g with rows added at its end, or g itself
ExtendsFile(f, g) == Len(g) <= Len(f) /\ SubSeq(f, 1, Len(g)) = g

\* a step that is a call of save_checkpoint by the owner of the searcher
SaveCheckpointStep == sq_ops' = sq_ops + 1 /\ sq_op' = "save_checkpoint"

\* C20: over any sequence of search_single_query, save_checkpoint and
\* export_to_csv calls no accepted record is written to the checkpoint file
\* more than once, the file is only ever appended to, and save_checkpoint
\* with no record accepted since the last successful checkpoint writes nothing
C20_CheckpointAppendsOnlyNew ==
    /\ [](NoRepeat(sq.checkpoint_file))
    /\ [][ExtendsFile(sq'.checkpoint_file, sq.checkpoint_file)]_vars
    /\ [][SaveCheckpointStep /\ sq.last_checkpoint_count = Len(sq.all_results)
            => sq'.checkpoint_file = sq.checkpoint_file]_vars

\* the accepted records that no append has put in the checkpoint file
NotCheckpointed == Range(sq_accepted) \ Range(sq.checkpoint_file)

\* search_single_query has just returned
AtQueryReturn == sq_pc = "idle" /\ sq_op = "search_single_query" /\ sq_calls > 0

\* C21: with checkpoints enabled and every write succeeding, no
\* search_single_query returns leaving 50 or more accepted records out of the
\* checkpoint file, and after export_to_csv every accepted record is in it,
\* also when the owner emptied all_results in place between two calls
C21_CheckpointCompleteness ==
    sq.enable_checkpoints /\ sq_writes_ok =>
        /\ AtQueryReturn => Cardinality(NotCheckpointed) < checkpoint_interval
        /\ sq_op = "export_to_csv" => NotCheckpointed = {}

\* the same without a flush_and_clear between the calls
C21_WithoutClear == ~sq_plan.clears => C21_CheckpointCompleteness

\* C26: in every state of the web searcher the checkpoint cursor is within the
\* buffer, 0 <= last_checkpoint_count <= len(all_results), also after the
\* owner's flush_and_clear emptied all_results in place
C26_CursorWithinBuffer ==
    /\ 0 <= sq.last_checkpoint_count
    /\ sq.last_checkpoint_count <= Len(sq.all_results)

-----------------------------------------------------------------------------
(* Properties of the end of the run *)

\* the status last passed to complete_search, "" before
Issued == IF reported = <<>> THEN "" ELSE reported[1].status

-----------------------------------------------------------------------------
(* Properties of the two-phase pipeline *)

\* the domain column of the row exported for a link or a website, as the
\* merge compares it
DomainKey(url) == Lower(Strip(searcher_extract_domain(url)))

\* the rows of the final file whose domain column is dom, as the merge
\* compares it
FinalRowsOf(final_file, dom) ==
    {i \in 1..Len(final_file[1].rows) :
        Lower(Strip(final_file[1].rows[i].row.domain)) = dom}

-----------------------------------------------------------------------------
(* Properties of the maps dedup keys *)

ExtractMapsReturned == fn_pc = "returned" /\ fn_args.fn = "extract_maps_results"

\* C23: in extract_maps_results the dedup key of a place that has a website
\* and the dedup key of a place without one ('place_id:<id>') are never
\* equal after normalization
C23_KeySpacesDisjoint ==
    ExtractMapsReturned =>
        \A i, j \in 1..Len(fn_args.places) :
            fn_args.places[i].website # <<>> /\ fn_args.places[j].website = <<>> =>
                normalize_url(MapsDedupKey(fn_args.places[i]))
                    # normalize_url(MapsDedupKey(fn_args.places[j]))

\* the places without a website that carry the identifier id
PlacesWithoutWebsite(places, id) ==
    {i \in 1..Len(places) : places[i].website = <<>> /\ places[i].placeId = id}

\* the records of places without a website that carry the identifier id
RecordsWithoutWebsite(results, id) ==
    {k \in 1..Len(results) : results[k].website = <<>> /\ results[k].place_id = id}

\* C28: two places without a website and with different place identifiers,
\* also identifiers that differ only in letter case, are both accepted, and a
\* place with neither website nor identifier does not block later such places
C28_DistinctPlacesAccepted ==
    ExtractMapsReturned =>
        /\ \A i \in 1..Len(fn_args.places) :
                fn_args.places[i].website = <<>> =>
                    RecordsWithoutWebsite(fn_ret[1], fn_args.places[i].placeId) # {}
        /\ Cardinality(RecordsWithoutWebsite(fn_ret[1], <<>>))
                = Cardinality(PlacesWithoutWebsite(fn_args.places, <<>>))

-----------------------------------------------------------------------------
(* Properties of deduplicate_csv *)

\* the key of a row as deduplicate_csv compares it: <<>> for an empty cell
CsvKey(row, key) ==
    LET cell == Strip(IF key = "url" THEN row.url ELSE row.domain) IN
    IF cell = <<>> THEN <<>>
    ELSE IF key = "url" THEN <<normalize_url(cell)>> ELSE <<extract_domain(cell)>>

\* C25: deduplicate_csv with keep='last' writes exactly one row per distinct
\* non-empty key value, the last occurrence of the key in the input, for
\* key='url' and key='domain' alike
C25_KeepLast ==
    fn_pc = "returned" /\ fn_args.fn = "deduplicate_csv" /\ fn_args.keep = "last" =>
        \E keys \in {[i \in 1..Len(fn_args.rows) |-> CsvKey(fn_args.rows[i], fn_args.key)]} :
            /\ \A k \in 1..Len(fn_ret[1]) : keys[fn_ret[1][k].pos] # <<>>
            /\ \A i \in 1..Len(keys) :
                keys[i] # <<>> =>
                    \E written \in {{k \in 1..Len(fn_ret[1]) : keys[fn_ret[1][k].pos] = keys[i]}} :
                        /\ Cardinality(written) = 1
                        /\ \A k \in written :
                            \A j \in 1..Len(keys) : keys[j] = keys[i] => j <= fn_ret[1][k].pos

-----------------------------------------------------------------------------
(* Properties of analyze_phase1_coverage *)

CoverageReturned == fn_pc = "returned" /\ fn_args.fn = "analyze_phase1_coverage"

\* the cities with records in the file, and the number of records
CoverageGroups == {i \in 1..3 : fn_args.searched[i] > 0}
CoverageTotal == fn_args.searched[1] + fn_args.searched[2] + fn_args.searched[3]

\* the elements of a sequence
Returned(seq) == {seq[i] : i \in 1..Len(seq)}

\* C24: analyze_phase1_coverage returns exactly the groups whose record count
\* is strictly below 0.5 x (total records / number of groups), the empty list
\* when there is no group, and only C for the counts A:100, B:40, C:10
C24_CoverageThreshold ==
    CoverageReturned =>
        /\ fn_args.file # <<>> /\ fn_args.readable =>
            /\ Returned(fn_ret[1])
                = {CoverageCities[i] : i \in {g \in CoverageGroups :
                        2 * fn_args.searched[g] * Cardinality(CoverageGroups) < CoverageTotal}}
            /\ Len(fn_ret[1]) = Cardinality(Returned(fn_ret[1]))
            /\ fn_args.searched = ExampleCounts => fn_ret[1] = <<"C">>
        /\ fn_args.file = <<>> \/ ~fn_args.readable \/ CoverageGroups = {} => fn_ret[1] = <<>>

\* the analysis of the file with 100, 40 and 10 records has returned C
C24_Witness ==
    /\ CoverageReturned /\ fn_args.file # <<>> /\ fn_args.readable
    /\ fn_args.searched = ExampleCounts
    /\ fn_ret[1] = <<"C">>

\* C30: analyze_phase1_coverage only returns cities with at least one record
\* in the phase-1 file: a searched city without records is never returned
C30_OnlyCitiesWithRecords ==
    CoverageReturned =>
        \A i \in 1..3 : fn_args.searched[i] = 0 => CoverageCities[i] \notin Returned(fn_ret[1])

\* a city was searched without a record, and the analysis returned another
C30_Witness ==
    /\ CoverageReturned /\ fn_args.file # <<>> /\ fn_args.readable
    /\ fn_args.searched = <<4, 1, 0>>
    /\ fn_ret[1] = <<"B">>

-----------------------------------------------------------------------------
(* Properties of the orchestrator's estimate *)

\* C29: the web backend calls issued by run_phase1_search never exceed the
\* estimate it displays, keywords x cities x query variations x
\* (results_per_query // 10); here for one keyword and one city, the
\* search_single_query calls begun being the query variations
C29_Phase1CallsWithinEstimate ==
    Len(sq.requests) <= estimated_calls(1, 1, sq_calls, sq_total_results)

====
